---- MODULE Spec2Model ----
(***************************************************************************)
(* Model of the Tiller gRPC gateway (pkg/tiller/server.go and its          *)
(* return-value based predecessor) of appscode/helm: version gating,       *)
(* credential dispatch, the three credential verifiers and the stream      *)
(* wrapper.  Go strings are sequences of one-character strings, so that    *)
(* prefix tests, slicing, splitting and base64 decoding are computed.      *)
(***************************************************************************)
EXTENDS Integers, Sequences, FiniteSets, TLC

VARIABLES
    impl,       \* which build answers: "server" (pkg/tiller/server.go) or "legacy" (part_003)
    syscfg,     \* the gateway's system rest.Config, captured by the interceptors
    pc,         \* "idle" | "handler" | "done": position of the call in flight
    call,       \* inputs of the call in flight: kind, FullMethod, transport context, cluster outcomes
    outcome,    \* what the interceptor did: trace of steps, error, handler invoked, handler context
    ssLog,      \* operations received by the underlying grpc.ServerStream, in order
    wLog,       \* operations the handler issued on the stream it was handed, with their results
    iface,      \* which ReleaseInterface is in use: "real" (ReleaseImpl) or "fake" (FakeRelease)
    ns,         \* the namespace the store was made for (ReleaseImpl.ns, FakeRelease.ns)
    backend,    \* what the backend holds: its records in creation order, its revision counter
    policy,     \* what kind of backend it is: optimistic concurrency, selector push-down
    lastOp,     \* the last store call: method, argument, request sent, what was returned
    written,    \* per name: what the store's own calls last wrote, or that they deleted it
    consumed,   \* (name, revision token) pairs with which an update has succeeded
    registry,   \* the cluster's third party resources: is the release type registered
    inst,       \* per starting gateway instance: where it is in NewStorage, and how it ended
    mem,        \* the memory driver's map: per name absent, key only, or stored with its body
    mu,         \* the memory driver's lock: "none" or the task holding it
    task,       \* per task calling the memory driver: its call, where it is, what it got
    environ,    \* the process's surroundings: TILLER_NAMESPACE, the service account namespace file
    startup,    \* whether NewStorage has resolved the namespace, and the surroundings it saw
    used        \* the namespaces of the requests the store's client has sent, in order

gatewayVars == <<impl, syscfg, pc, call, outcome, ssLog, wLog>>
storeVars == <<iface, ns, backend, policy, lastOp, written, consumed>>
bootVars == <<registry, inst>>
memVars == <<mem, mu, task>>
namespaceVars == <<environ, startup, used>>
vars == <<impl, syscfg, pc, call, outcome, ssLog, wLog,
          iface, ns, backend, policy, lastOp, written, consumed, registry, inst,
          mem, mu, task, environ, startup, used>>

(***************************************************************************)
(* Go strings                                                              *)
(***************************************************************************)
EmptyStr == <<>>

\* strings.HasPrefix(s, p)
HasPrefix(s, p) ==
    /\ Len(s) >= Len(p)
    /\ SubSeq(s, 1, Len(p)) = p

\* s[n:]
SliceFrom(s, n) == SubSeq(s, n + 1, Len(s))

\* index of the first occurrence of the one-character separator, 0 if none
IndexOf(s, sep) ==
    IF \E i \in 1..Len(s) : s[i] = sep
    THEN CHOOSE i \in 1..Len(s) : s[i] = sep /\ \A j \in 1..(i - 1) : s[j] # sep
    ELSE 0

\* strings.Split(s, sep) for a one-character separator
RECURSIVE Split(_, _)
Split(s, sep) ==
    LET i == IndexOf(s, sep) IN
    IF i = 0 THEN <<s>>
    ELSE <<SubSeq(s, 1, i - 1)>> \o Split(SliceFrom(s, i), sep)

\* strings.SplitN(s, sep, 2)
SplitN2(s, sep) ==
    LET i == IndexOf(s, sep) IN
    IF i = 0 THEN <<s>>
    ELSE <<SubSeq(s, 1, i - 1), SliceFrom(s, i)>>

(***************************************************************************)
(* encoding/base64, StdEncoding.DecodeString                               *)
(***************************************************************************)
B64Alphabet ==
    << "A","B","C","D","E","F","G","H","I","J","K","L","M","N","O","P",
       "Q","R","S","T","U","V","W","X","Y","Z","a","b","c","d","e","f",
       "g","h","i","j","k","l","m","n","o","p","q","r","s","t","u","v",
       "w","x","y","z","0","1","2","3","4","5","6","7","8","9","+","/" >>

IsB64Char(c) == \E i \in 1..64 : B64Alphabet[i] = c

B64Val(c) == (CHOOSE i \in 1..64 : B64Alphabet[i] = c) - 1

\* string(bytes), one character per byte: letters, digits, space and ":"
\* are themselves; every other byte value is one placeholder character
\* (the gateway inspects only ":" and the length of the decoded string)
Upper == SubSeq(B64Alphabet, 1, 26)
Lower == SubSeq(B64Alphabet, 27, 52)
Digits == SubSeq(B64Alphabet, 53, 62)

Chr(b) ==
    IF b >= 65 /\ b <= 90 THEN Upper[b - 64]
    ELSE IF b >= 97 /\ b <= 122 THEN Lower[b - 96]
    ELSE IF b >= 48 /\ b <= 57 THEN Digits[b - 47]
    ELSE IF b = 58 THEN ":"
    ELSE IF b = 32 THEN " "
    ELSE "?"

\* the three bytes (fewer with padding) of one quantum of four characters
Quantum(q, last) ==
    LET pad == IF last /\ q[4] = "=" THEN (IF q[3] = "=" THEN 2 ELSE 1) ELSE 0
        n   == 4 - pad
        ok  == \A i \in 1..n : IsB64Char(q[i])
        v(i) == IF i <= n /\ IsB64Char(q[i]) THEN B64Val(q[i]) ELSE 0
        bits == v(1) * 262144 + v(2) * 4096 + v(3) * 64 + v(4)
        b1 == bits \div 65536
        b2 == (bits \div 256) % 256
        b3 == bits % 256
    IN  [ok |-> ok,
         bytes |-> IF pad = 0 THEN <<b1, b2, b3>>
                   ELSE IF pad = 1 THEN <<b1, b2>> ELSE <<b1>>]

Both(q, r) == [ok |-> q.ok /\ r.ok, bytes |-> q.bytes \o r.bytes]

RECURSIVE DecodeQuanta(_)
DecodeQuanta(s) ==
    IF Len(s) = 0 THEN [ok |-> TRUE, bytes |-> <<>>]
    ELSE Both(Quantum(SubSeq(s, 1, 4), Len(s) = 4), DecodeQuanta(SliceFrom(s, 4)))

\* string(bytes) of the decoded bytes, nothing on a corrupt input
Decoded(d) ==
    IF d.ok THEN [ok |-> TRUE, str |-> [i \in 1..Len(d.bytes) |-> Chr(d.bytes[i])]]
    ELSE [ok |-> FALSE, str |-> EmptyStr]

\* base64.StdEncoding.DecodeString: "\r" and "\n" are skipped, the rest
\* must be whole padded quanta over the standard alphabet
DecodeString(s) ==
    LET t == SelectSeq(s, LAMBDA c : c # "\r" /\ c # "\n")
    IN  IF Len(t) % 4 # 0 THEN [ok |-> FALSE, str |-> EmptyStr]
        ELSE Decoded(DecodeQuanta(t))

\* getUserPasswordFromBasicAuth
getUserPasswordFromBasicAuth(token) ==
    LET st == SplitN2(token, ":") IN
    IF Len(st) = 2 THEN <<st[1], st[2]>> ELSE <<EmptyStr, EmptyStr>>

(***************************************************************************)
(* pkg/version: IsCompatible and the server's version                      *)
(***************************************************************************)
\* version.Version, the version the server was built as
Version == <<"v", "2", ".", "1">>

IsDigit(c) == \E i \in 1..10 : Digits[i] = c

DigitVal(c) == (CHOOSE i \in 1..10 : Digits[i] = c) - 1

\* a version string: optional "v", then major.minor or major.minor.patch
ParseVersion(s) ==
    LET t == IF Len(s) > 0 /\ s[1] = "v" THEN SliceFrom(s, 1) ELSE s
        f == Split(t, ".")
        ok == /\ Len(f) \in {2, 3}
              /\ \A i \in 1..Len(f) : Len(f[i]) = 1 /\ IsDigit(f[i][1])
    IN  IF ok THEN [ok |-> TRUE, major |-> DigitVal(f[1][1]), minor |-> DigitVal(f[2][1])]
        ELSE [ok |-> FALSE, major |-> 0, minor |-> 0]

\* IsCompatible(client, server): the server satisfies the range ^major.minor.x
\* of the client; an empty or malformed client version is incompatible
IsCompatible(client, server) ==
    LET cv == ParseVersion(client)
        sv == ParseVersion(server)
    IN  /\ cv.ok
        /\ sv.ok
        /\ sv.major = cv.major
        /\ IF cv.major > 0 THEN sv.minor >= cv.minor ELSE sv.minor = cv.minor

(***************************************************************************)
(* Contexts, metadata, peers, client configurations                        *)
(***************************************************************************)
\* kube.Authorization, the metadata key of the authorization header
Authorization == "authorization"

VersionHeader == "x-helm-api-client"

\* context keys of package kube
UserInfoKey == "UserInfo"
UserClientKey == "UserClient"
SystemClientKey == "SystemClient"
UserClientConfigKey == "UserClientConfig"
SystemClientConfigKey == "SystemClientConfig"
ImpersonateUserKey == "ImpersonateUser"

NoVals == [k \in {} |-> FALSE]

\* the nil context.Context
NilCtx == [nil |-> TRUE, md |-> [ok |-> FALSE, hdr |-> NoVals],
           peer |-> [ok |-> FALSE, tls |-> FALSE, chains |-> <<>>], vals |-> NoVals]

\* context.WithValue(ctx, key, val)
WithValue(ctx, key, val) ==
    [ctx EXCEPT !.vals = [k \in (DOMAIN ctx.vals) \cup {key} |->
                              IF k = key THEN val ELSE ctx.vals[k]]]

HasValue(ctx, key) == ~ctx.nil /\ key \in DOMAIN ctx.vals

\* the zero rest.Config
EmptyConfig ==
    [Host |-> EmptyStr, APIPath |-> EmptyStr, Prefix |-> EmptyStr,
     BearerToken |-> EmptyStr, Username |-> EmptyStr, Password |-> EmptyStr,
     Impersonate |-> EmptyStr, CertData |-> EmptyStr, KeyData |-> EmptyStr]

\* kube.New(&wrapClientConfig{cfg: cfg})
NewClient(cfg) == [cfg |-> cfg]

NoErr == "nil"
ErrMissingMetadata == "Missing metadata in context."
ErrUnknownScheme == "Unknown authorization scheme."
ErrIncompatible == "incompatible versions client: %s server: %s"
ErrNotAuthenticated == "Not authenticated"
ErrMissingUserPass == "Missing username or password."
ErrNoPeer == "No peer found!"
ErrNoTLS == "No TLS credential found!"
ErrNoCert == "No verified client certificate found!"
\* errors of the collaborators
ErrBase64 == "illegal base64 data"
ErrClientSet == "clientset: invalid configuration"
ErrTokenReview == "tokenreviews: request failed"
ErrServerVersion == "serverversion: request failed"

(***************************************************************************)
(* The cluster, as the gateway sees it                                     *)
(***************************************************************************)
\* tokens the cluster's token review reports authenticated, and whose they are
TokenUsers == [t \in {<<"x">>} |-> [Username |-> <<"a">>, Groups |-> {"dev"}]]

\* username/password pairs the cluster accepts
BasicUsers == {<<<<"u">>, <<"p">>>>, <<<<"u">>, <<"p", ":", "q">>>>}

NoUser == [Username |-> EmptyStr, Groups |-> {}]

\* clientset.AuthenticationClient.TokenReviews().Create(tokenReq)
TokenReviewsCreate(token, cluster) ==
    IF cluster = "unreachable"
    THEN [err |-> ErrTokenReview, Authenticated |-> FALSE, User |-> NoUser]
    ELSE IF token \in DOMAIN TokenUsers
    THEN [err |-> NoErr, Authenticated |-> TRUE, User |-> TokenUsers[token]]
    ELSE [err |-> NoErr, Authenticated |-> FALSE, User |-> NoUser]

\* clientset.DiscoveryClient.ServerVersion() issued with the client's credentials
ServerVersion(cfg, cluster) ==
    IF cluster = "unreachable" \/ <<cfg.Username, cfg.Password>> \notin BasicUsers
    THEN ErrServerVersion
    ELSE NoErr

\* Client.ClientSet()
ClientSet(client, cluster) == IF cluster = "badconfig" THEN ErrClientSet ELSE NoErr

Ev(op, arg) == [op |-> op, arg |-> arg]

(***************************************************************************)
(* pkg/tiller/server.go: the credential verifiers.  Each returns its error *)
(* only; ctx is the value of its own ctx variable when it returns, which   *)
(* the caller does not receive.  trace lists the collaborator calls made.  *)
(***************************************************************************)
\* variant: usrcfg := syscfg, the two names for the one rest.Config
ImpersonatedShared(cfg, cn) ==
    [usrcfg |-> [cfg EXCEPT !.Impersonate = cn],
     syscfg |-> [cfg EXCEPT !.Impersonate = cn]]

\* usrcfg := *syscfg; usrcfg.Impersonate = c.Subject.CommonName: the user's
\* config, and the rest.Config syscfg points to as it is afterwards
Impersonated(cfg, cn) ==
    [usrcfg |-> [cfg EXCEPT !.Impersonate = cn], syscfg |-> cfg]

BearerPrefix == <<"B", "e", "a", "r", "e", "r", " ">>
BasicPrefix == <<"B", "a", "s", "i", "c", " ">>

\* variant: the prefix is cut one character short
checkBearerAuthKeepSpace(ctx, h, cfg, cluster) ==
    LET token == SliceFrom(h, Len(BearerPrefix) - 1)
        sysClient == NewClient(cfg)
        result == TokenReviewsCreate(token, cluster)
        usrcfg == [EmptyConfig EXCEPT !.Host = cfg.Host, !.APIPath = cfg.APIPath,
                       !.Prefix = cfg.Prefix, !.BearerToken = token,
                       !.CertData = cfg.CertData]
        review == <<Ev("TokenReview", token)>>
    IN  IF ClientSet(sysClient, cluster) # NoErr
        THEN [err |-> ClientSet(sysClient, cluster), ctx |-> ctx, trace |-> <<>>]
        ELSE IF result.err # NoErr
        THEN [err |-> result.err, ctx |-> ctx, trace |-> review]
        ELSE IF ~result.Authenticated
        THEN [err |-> ErrNotAuthenticated, ctx |-> ctx, trace |-> review]
        ELSE [err |-> NoErr,
              ctx |-> WithValue(WithValue(WithValue(ctx,
                          UserInfoKey, result.User),
                          UserClientKey, NewClient(usrcfg)),
                          SystemClientKey, sysClient),
              trace |-> review]

checkBearerAuth(ctx, h, cfg, cluster) ==
    LET token == SliceFrom(h, Len(BearerPrefix))
        sysClient == NewClient(cfg)
        result == TokenReviewsCreate(token, cluster)
        usrcfg == [EmptyConfig EXCEPT !.Host = cfg.Host, !.APIPath = cfg.APIPath,
                       !.Prefix = cfg.Prefix, !.BearerToken = token,
                       !.CertData = cfg.CertData]
        review == <<Ev("TokenReview", token)>>
    IN  IF ClientSet(sysClient, cluster) # NoErr
        THEN [err |-> ClientSet(sysClient, cluster), ctx |-> ctx, trace |-> <<>>]
        ELSE IF result.err # NoErr
        THEN [err |-> result.err, ctx |-> ctx, trace |-> review]
        ELSE IF ~result.Authenticated
        THEN [err |-> ErrNotAuthenticated, ctx |-> ctx, trace |-> review]
        ELSE [err |-> NoErr,
              ctx |-> WithValue(WithValue(WithValue(ctx,
                          UserInfoKey, result.User),
                          UserClientKey, NewClient(usrcfg)),
                          SystemClientKey, sysClient),
              trace |-> review]

\* variant: the credentials are accepted without the probe's answer
basicAuthDecodedNoProbe(ctx, basicAuth, cfg, cluster) ==
    LET up == getUserPasswordFromBasicAuth(basicAuth.str)
        username == up[1]
        password == up[2]
        usrcfg == [EmptyConfig EXCEPT !.Host = cfg.Host, !.APIPath = cfg.APIPath,
                       !.Prefix = cfg.Prefix, !.Username = username,
                       !.Password = password, !.CertData = cfg.CertData]
        usrClient == NewClient(usrcfg)
        probe == <<Ev("ServerVersion", usrcfg)>>
    IN  IF ~basicAuth.ok
        THEN [err |-> ErrBase64, ctx |-> ctx, trace |-> <<>>]
        ELSE IF Len(username) = 0 \/ Len(password) = 0
        THEN [err |-> ErrMissingUserPass, ctx |-> ctx, trace |-> <<>>]
        ELSE IF ClientSet(usrClient, cluster) # NoErr
        THEN [err |-> ClientSet(usrClient, cluster), ctx |-> ctx, trace |-> <<>>]
        ELSE [err |-> NoErr,
              ctx |-> WithValue(WithValue(WithValue(ctx,
                          UserInfoKey, [Username |-> username, Groups |-> {}]),
                          UserClientKey, usrClient),
                          SystemClientKey, NewClient(cfg)),
              trace |-> probe]

\* checkBasicAuth after basicAuth, err := base64.StdEncoding.DecodeString(...)
basicAuthDecoded(ctx, basicAuth, cfg, cluster) ==
    LET up == getUserPasswordFromBasicAuth(basicAuth.str)
        username == up[1]
        password == up[2]
        usrcfg == [EmptyConfig EXCEPT !.Host = cfg.Host, !.APIPath = cfg.APIPath,
                       !.Prefix = cfg.Prefix, !.Username = username,
                       !.Password = password, !.CertData = cfg.CertData]
        usrClient == NewClient(usrcfg)
        probe == <<Ev("ServerVersion", usrcfg)>>
    IN  IF ~basicAuth.ok
        THEN [err |-> ErrBase64, ctx |-> ctx, trace |-> <<>>]
        ELSE IF Len(username) = 0 \/ Len(password) = 0
        THEN [err |-> ErrMissingUserPass, ctx |-> ctx, trace |-> <<>>]
        ELSE IF ClientSet(usrClient, cluster) # NoErr
        THEN [err |-> ClientSet(usrClient, cluster), ctx |-> ctx, trace |-> <<>>]
        ELSE IF ServerVersion(usrcfg, cluster) # NoErr
        THEN [err |-> ServerVersion(usrcfg, cluster), ctx |-> ctx, trace |-> probe]
        ELSE [err |-> NoErr,
              ctx |-> WithValue(WithValue(WithValue(ctx,
                          UserInfoKey, [Username |-> username, Groups |-> {}]),
                          UserClientKey, usrClient),
                          SystemClientKey, NewClient(cfg)),
              trace |-> probe]

checkBasicAuth(ctx, h, cfg, cluster) ==
    basicAuthDecoded(ctx, DecodeString(SliceFrom(h, Len(BasicPrefix))), cfg, cluster)

\* variant: the leaf is taken from the last verified chain, not the first
checkClientCertLastChain(ctx, cfg) ==
    LET chains == ctx.peer.chains
        c == chains[Len(chains)][1]
        user == [Username |-> c.CommonName, Groups |-> {}]
        usrcfg == [cfg EXCEPT !.Impersonate = c.CommonName]
    IN  IF ~ctx.peer.ok
        THEN [err |-> ErrNoPeer, ctx |-> ctx, trace |-> <<>>]
        ELSE IF ~ctx.peer.tls
        THEN [err |-> ErrNoTLS, ctx |-> ctx, trace |-> <<>>]
        ELSE IF Len(chains) = 0 \/ Len(chains[Len(chains)]) = 0
        THEN [err |-> ErrNoCert, ctx |-> ctx, trace |-> <<>>]
        ELSE [err |-> NoErr,
              ctx |-> WithValue(WithValue(WithValue(WithValue(ctx,
                          UserInfoKey, user),
                          UserClientKey, NewClient(usrcfg)),
                          SystemClientKey, NewClient(cfg)),
                          ImpersonateUserKey, TRUE),
              trace |-> <<>>]

\* variant: the user configuration is built from the connection fields only
checkClientCertFreshConfig(ctx, cfg) ==
    LET chains == ctx.peer.chains
        c == chains[1][1]
        user == [Username |-> c.CommonName, Groups |-> {}]
        usrcfg == [EmptyConfig EXCEPT !.Host = cfg.Host, !.APIPath = cfg.APIPath,
                       !.Prefix = cfg.Prefix, !.CertData = cfg.CertData,
                       !.Impersonate = c.CommonName]
    IN  IF ~ctx.peer.ok
        THEN [err |-> ErrNoPeer, ctx |-> ctx, trace |-> <<>>]
        ELSE IF ~ctx.peer.tls
        THEN [err |-> ErrNoTLS, ctx |-> ctx, trace |-> <<>>]
        ELSE IF Len(chains) = 0 \/ Len(chains[1]) = 0
        THEN [err |-> ErrNoCert, ctx |-> ctx, trace |-> <<>>]
        ELSE [err |-> NoErr,
              ctx |-> WithValue(WithValue(WithValue(WithValue(ctx,
                          UserInfoKey, user),
                          UserClientKey, NewClient(usrcfg)),
                          SystemClientKey, NewClient(cfg)),
                          ImpersonateUserKey, TRUE),
              trace |-> <<>>]

checkClientCert(ctx, cfg) ==
    LET chains == ctx.peer.chains
        c == chains[1][1]
        user == [Username |-> c.CommonName, Groups |-> {}]
        usrcfg == Impersonated(cfg, c.CommonName).usrcfg
    IN  IF ~ctx.peer.ok
        THEN [err |-> ErrNoPeer, ctx |-> ctx, trace |-> <<>>]
        ELSE IF ~ctx.peer.tls
        THEN [err |-> ErrNoTLS, ctx |-> ctx, trace |-> <<>>]
        ELSE IF Len(chains) = 0 \/ Len(chains[1]) = 0
        THEN [err |-> ErrNoCert, ctx |-> ctx, trace |-> <<>>]
        ELSE [err |-> NoErr,
              ctx |-> WithValue(WithValue(WithValue(WithValue(ctx,
                          UserInfoKey, user),
                          UserClientKey, NewClient(usrcfg)),
                          SystemClientKey, NewClient(cfg)),
                          ImpersonateUserKey, TRUE),
              trace |-> <<>>]

\* variant: an empty first value is not taken for an absent header
NoAuthHeaderKeyOnly(md) ==
    \/ Authorization \notin DOMAIN md.hdr
    \/ Len(md.hdr[Authorization]) = 0

\* md[kube.Authorization] is missing, empty, or has an empty first value
NoAuthHeader(md) ==
    \/ Authorization \notin DOMAIN md.hdr
    \/ Len(md.hdr[Authorization]) = 0
    \/ md.hdr[Authorization][1] = EmptyStr

\* variant: the metadata lookup's ok is not looked at
authenticateNoMetadataCheck(ctx, cfg, cluster) ==
    LET md == ctx.md
        authHeader == md.hdr[Authorization]
        return(r, ev) == [ctx |-> ctx, err |-> r.err, trace |-> <<ev>> \o r.trace]
    IN  IF NoAuthHeader(md)
        THEN return(checkClientCert(ctx, cfg), Ev("checkClientCert", EmptyStr))
        ELSE IF HasPrefix(authHeader[1], BearerPrefix)
        THEN return(checkBearerAuth(ctx, authHeader[1], cfg, cluster),
                    Ev("checkBearerAuth", authHeader[1]))
        ELSE IF HasPrefix(authHeader[1], BasicPrefix)
        THEN return(checkBasicAuth(ctx, authHeader[1], cfg, cluster),
                    Ev("checkBasicAuth", authHeader[1]))
        ELSE [ctx |-> NilCtx, err |-> ErrUnknownScheme, trace |-> <<>>]

\* authenticate of pkg/tiller/server.go: returns its own ctx, which no
\* verifier has changed, together with the verifier's error
authenticate(ctx, cfg, cluster) ==
    LET md == ctx.md
        authHeader == md.hdr[Authorization]
        \* err = checkX(ctx, ...); return ctx, err
        return(r, ev) == [ctx |-> ctx, err |-> r.err, trace |-> <<ev>> \o r.trace]
    IN  IF ~md.ok
        THEN [ctx |-> NilCtx, err |-> ErrMissingMetadata, trace |-> <<>>]
        ELSE IF NoAuthHeader(md)
        THEN return(checkClientCert(ctx, cfg), Ev("checkClientCert", EmptyStr))
        ELSE IF HasPrefix(authHeader[1], BearerPrefix)
        THEN return(checkBearerAuth(ctx, authHeader[1], cfg, cluster),
                    Ev("checkBearerAuth", authHeader[1]))
        ELSE IF HasPrefix(authHeader[1], BasicPrefix)
        THEN return(checkBasicAuth(ctx, authHeader[1], cfg, cluster),
                    Ev("checkBasicAuth", authHeader[1]))
        ELSE [ctx |-> NilCtx, err |-> ErrUnknownScheme, trace |-> <<>>]

(***************************************************************************)
(* The return-value based build (src/unnamed/part_003): the verifiers      *)
(* return (user, usrcfg, err) and authenticate attaches the values.        *)
(***************************************************************************)
checkBearerAuthLegacy(h, cfg, cluster) ==
    LET token == SliceFrom(h, Len(BearerPrefix))
        result == TokenReviewsCreate(token, cluster)
        usrcfg == [EmptyConfig EXCEPT !.Host = cfg.Host, !.APIPath = cfg.APIPath,
                       !.Prefix = cfg.Prefix, !.BearerToken = token,
                       !.CertData = cfg.CertData]
        review == <<Ev("TokenReview", token)>>
    IN  IF ClientSet(NewClient(cfg), cluster) # NoErr
        THEN [user |-> NoUser, usrcfg |-> EmptyConfig,
              err |-> ClientSet(NewClient(cfg), cluster), trace |-> <<>>]
        ELSE IF result.err # NoErr
        THEN [user |-> NoUser, usrcfg |-> EmptyConfig, err |-> result.err, trace |-> review]
        ELSE IF ~result.Authenticated
        THEN [user |-> NoUser, usrcfg |-> EmptyConfig, err |-> ErrNotAuthenticated,
              trace |-> review]
        ELSE [user |-> result.User, usrcfg |-> usrcfg, err |-> NoErr, trace |-> review]

basicAuthDecodedLegacy(basicAuth, cfg, cluster) ==
    LET up == getUserPasswordFromBasicAuth(basicAuth.str)
        username == up[1]
        password == up[2]
        usrcfg == [EmptyConfig EXCEPT !.Host = cfg.Host, !.APIPath = cfg.APIPath,
                       !.Prefix = cfg.Prefix, !.Username = username,
                       !.Password = password, !.CertData = cfg.CertData]
        probe == <<Ev("ServerVersion", usrcfg)>>
    IN  IF ~basicAuth.ok
        THEN [user |-> NoUser, usrcfg |-> EmptyConfig, err |-> ErrBase64, trace |-> <<>>]
        ELSE IF Len(username) = 0 \/ Len(password) = 0
        THEN [user |-> NoUser, usrcfg |-> EmptyConfig, err |-> ErrMissingUserPass,
              trace |-> <<>>]
        ELSE IF ClientSet(NewClient(usrcfg), cluster) # NoErr
        THEN [user |-> NoUser, usrcfg |-> EmptyConfig,
              err |-> ClientSet(NewClient(usrcfg), cluster), trace |-> <<>>]
        ELSE IF ServerVersion(usrcfg, cluster) # NoErr
        THEN [user |-> NoUser, usrcfg |-> EmptyConfig,
              err |-> ServerVersion(usrcfg, cluster), trace |-> probe]
        ELSE [user |-> [Username |-> username, Groups |-> {}], usrcfg |-> usrcfg,
              err |-> NoErr, trace |-> probe]

checkBasicAuthLegacy(h, cfg, cluster) ==
    basicAuthDecodedLegacy(DecodeString(SliceFrom(h, Len(BasicPrefix))), cfg, cluster)

checkClientCertLegacy(ctx, cfg) ==
    LET chains == ctx.peer.chains
        c == chains[1][1]
    IN  IF ~ctx.peer.ok
        THEN [user |-> NoUser, usrcfg |-> EmptyConfig, err |-> ErrNoPeer, trace |-> <<>>]
        ELSE IF ~ctx.peer.tls
        THEN [user |-> NoUser, usrcfg |-> EmptyConfig, err |-> ErrNoTLS, trace |-> <<>>]
        ELSE IF Len(chains) = 0 \/ Len(chains[1]) = 0
        THEN [user |-> NoUser, usrcfg |-> EmptyConfig, err |-> ErrNoCert, trace |-> <<>>]
        ELSE [user |-> [Username |-> c.CommonName, Groups |-> {}],
              usrcfg |-> Impersonated(cfg, c.CommonName).usrcfg,
              err |-> NoErr, trace |-> <<>>]

authenticateLegacy(ctx, cfg, cluster) ==
    LET md == ctx.md
        authHeader == md.hdr[Authorization]
        attach(r, ev) ==
            IF r.err # NoErr
            THEN [ctx |-> NilCtx, err |-> r.err, trace |-> <<ev>> \o r.trace]
            ELSE [ctx |-> WithValue(WithValue(WithValue(ctx,
                              UserInfoKey, r.user),
                              UserClientConfigKey, r.usrcfg),
                              SystemClientConfigKey, cfg),
                  err |-> NoErr, trace |-> <<ev>> \o r.trace]
    IN  IF ~md.ok
        THEN [ctx |-> NilCtx, err |-> ErrMissingMetadata, trace |-> <<>>]
        ELSE IF NoAuthHeader(md)
        THEN attach(checkClientCertLegacy(ctx, cfg), Ev("checkClientCert", EmptyStr))
        ELSE IF HasPrefix(authHeader[1], BearerPrefix)
        THEN attach(checkBearerAuthLegacy(authHeader[1], cfg, cluster),
                    Ev("checkBearerAuth", authHeader[1]))
        ELSE IF HasPrefix(authHeader[1], BasicPrefix)
        THEN attach(checkBasicAuthLegacy(authHeader[1], cfg, cluster),
                    Ev("checkBasicAuth", authHeader[1]))
        ELSE [ctx |-> NilCtx, err |-> ErrUnknownScheme, trace |-> <<>>]

(***************************************************************************)
(* Version gate and interceptors (the same text in both builds)            *)
(***************************************************************************)
Unknown == <<"u", "n", "k", "n", "o", "w", "n">>
GetVersion == <<"G", "e", "t", "V", "e", "r", "s", "i", "o", "n">>

\* variant: the fragments taken one position early
splitMethodShifted(fullMethod) ==
    LET frags == Split(fullMethod, "/") IN
    IF Len(frags) = 3 THEN <<frags[1], frags[2]>> ELSE <<Unknown, Unknown>>

splitMethod(fullMethod) ==
    LET frags == Split(fullMethod, "/") IN
    IF Len(frags) = 3 THEN <<frags[2], frags[3]>> ELSE <<Unknown, Unknown>>

versionFromContext(ctx) ==
    IF /\ ctx.md.ok
       /\ VersionHeader \in DOMAIN ctx.md.hdr
       /\ Len(ctx.md.hdr[VersionHeader]) > 0
    THEN ctx.md.hdr[VersionHeader][1]
    ELSE EmptyStr

\* variant: a client that states no version is let through
checkClientVersionLax(ctx) ==
    LET clientVersion == versionFromContext(ctx) IN
    IF clientVersion # EmptyStr /\ ~IsCompatible(clientVersion, Version)
    THEN ErrIncompatible ELSE NoErr

checkClientVersion(ctx) ==
    LET clientVersion == versionFromContext(ctx) IN
    IF ~IsCompatible(clientVersion, Version) THEN ErrIncompatible ELSE NoErr

\* authenticate of the build that is running
authenticateOf(build, ctx, cfg, cluster) ==
    IF build = "server" THEN authenticate(ctx, cfg, cluster)
    ELSE authenticateLegacy(ctx, cfg, cluster)

\* serverStreamWrapper and its methods; each forwarding method yields the
\* calls it makes on w.ss and what it returns, given what w.ss returns
NoStream == [ss |-> "none", ctx |-> NilCtx]
serverStreamWrapper(ss, ctx) == [ss |-> ss, ctx |-> ctx]

Context(w) == w.ctx
RecvMsg(w, msg, ssRet) == [calls |-> <<Ev("RecvMsg", msg)>>, ret |-> ssRet]
\* variant: the message is kept back and success reported
SendMsgBuffered(w, msg, ssRet) == [calls |-> <<>>, ret |-> NoErr]

SendMsg(w, msg, ssRet) == [calls |-> <<Ev("SendMsg", msg)>>, ret |-> ssRet]
SendHeader(w, md, ssRet) == [calls |-> <<Ev("SendHeader", md)>>, ret |-> ssRet]
SetHeader(w, md, ssRet) == [calls |-> <<Ev("SetHeader", md)>>, ret |-> ssRet]
SetTrailer(w, md, ssRet) == [calls |-> <<Ev("SetTrailer", md)>>, ret |-> "void"]

VersionEv(ctx) == Ev("checkClientVersion", versionFromContext(ctx))

\* variant: every rejection is reported with the one general error
RejectedGeneric(trace, err) ==
    [trace |-> trace, err |-> ErrNotAuthenticated, invoked |-> FALSE, hctx |-> NilCtx,
     stream |-> NoStream]

\* return nil, err / return err: the call is over, the handler not invoked
Rejected(trace, err) ==
    [trace |-> trace, err |-> err, invoked |-> FALSE, hctx |-> NilCtx, stream |-> NoStream]

\* variant: the error of authenticate is not looked at
unaryAuthenticatedUnchecked(gate, a) ==
    [trace |-> gate \o <<Ev("authenticate", EmptyStr)>> \o a.trace
                    \o <<Ev("handler", EmptyStr)>>,
     err |-> NoErr, invoked |-> TRUE, hctx |-> a.ctx, stream |-> NoStream]

\* ctx, err = authenticate(ctx, syscfg) and what follows it in the unary
\* interceptor: return nil, err or return handler(ctx, req)
unaryAuthenticated(gate, a) ==
    IF a.err # NoErr
    THEN Rejected(gate \o <<Ev("authenticate", EmptyStr)>> \o a.trace, a.err)
    ELSE [trace |-> gate \o <<Ev("authenticate", EmptyStr)>> \o a.trace
                        \o <<Ev("handler", EmptyStr)>>,
          err |-> NoErr, invoked |-> TRUE, hctx |-> a.ctx, stream |-> NoStream]

\* the same in the stream interceptor: return err, or wrap ss with the new
\* ctx and return handler(srv, newStream)
streamAuthenticated(gate, a) ==
    LET newStream == serverStreamWrapper("ss", a.ctx) IN
    IF a.err # NoErr
    THEN Rejected(gate \o <<Ev("authenticate", EmptyStr)>> \o a.trace, a.err)
    ELSE [trace |-> gate \o <<Ev("authenticate", EmptyStr)>> \o a.trace
                        \o <<Ev("handler", EmptyStr)>>,
          err |-> NoErr, invoked |-> TRUE, hctx |-> Context(newStream),
          stream |-> newStream]

\* variant: the GetVersion whitelist lets the call through to the handler
newUnaryInterceptorWhitelisted(build, ctx, fullMethod, cfg, cluster) ==
    LET err == checkClientVersion(ctx)
        m == splitMethod(fullMethod)[2]
    IN  IF err # NoErr /\ m # GetVersion
        THEN Rejected(<<VersionEv(ctx)>>, err)
        ELSE IF err # NoErr
        THEN [trace |-> <<VersionEv(ctx), Ev("handler", EmptyStr)>>, err |-> NoErr,
              invoked |-> TRUE, hctx |-> ctx, stream |-> NoStream]
        ELSE unaryAuthenticated(<<VersionEv(ctx)>>, authenticateOf(build, ctx, cfg, cluster))

\* the closure newUnaryInterceptor returns, up to its call of the handler
newUnaryInterceptor(build, ctx, fullMethod, cfg, cluster) ==
    LET err == checkClientVersion(ctx)
        m == splitMethod(fullMethod)[2]
    IN  IF err # NoErr /\ m # GetVersion
        THEN Rejected(<<VersionEv(ctx)>>, err)
        ELSE unaryAuthenticated(<<VersionEv(ctx)>>, authenticateOf(build, ctx, cfg, cluster))

\* the closure newStreamInterceptor returns, up to its call of the handler;
\* ctx is ss.Context()
newStreamInterceptor(build, ctx, fullMethod, cfg, cluster) ==
    LET err == checkClientVersion(ctx)
    IN  IF err # NoErr
        THEN Rejected(<<VersionEv(ctx)>>, err)
        ELSE streamAuthenticated(<<VersionEv(ctx)>>, authenticateOf(build, ctx, cfg, cluster))

(***************************************************************************)
(* Inputs                                                                  *)
(***************************************************************************)
MaxStreamOps == 2

SysConfigs ==
    {[EmptyConfig EXCEPT !.Host = <<"k">>, !.BearerToken = <<"s">>, !.CertData = <<"c">>]}

FullMethods ==
    { <<"/", "s", "/">> \o GetVersion,
      <<"/", "s", "/", "L", "i", "s", "t">>,
      <<"/">> \o GetVersion \o <<"/", "s">> }

VersionHeaders ==
    { <<>>, <<EmptyStr>>, <<<<"v", "2", ".", "1">>>>, <<<<"2", ".", "0", ".", "3">>>>,
      <<<<"v", "2", ".", "2">>>>, <<<<"3", ".", "1">>>>, <<<<"d", "e", "v">>>>,
      <<<<"v", "2", ".", "1">>, <<"3", ".", "1">>>> }

AuthHeaders ==
    { <<>>, <<EmptyStr>>, <<EmptyStr, BearerPrefix \o <<"x">>>>,
      <<BearerPrefix \o <<"x">>>>, <<BearerPrefix \o <<"y">>>>, <<BearerPrefix>>,
      <<BearerPrefix \o <<"x">>, BasicPrefix \o <<"d", "T", "p", "w">>>>,
      <<<<"B", "e", "a", "r", "e", "r", "x">>>>,
      <<<<"b", "e", "a", "r", "e", "r", " ", "x">>>>,
      <<BasicPrefix \o <<"d", "T", "p", "w">>>>,
      <<BasicPrefix \o <<"d", "T", "p", "w", "O", "n", "E", "=">>>>,
      <<BasicPrefix \o <<"d", "T", "p", "x">>>>,
      <<BasicPrefix \o <<"O", "n", "A", "=">>>>,
      <<BasicPrefix \o <<"d", "T", "o", "=">>>>,
      <<BasicPrefix \o <<"d", "Q", "=", "=">>>>,
      <<BasicPrefix \o <<"d", "T", "p">>>>,
      <<BasicPrefix>>,
      <<<<"B", "a", "s", "i", "c">>>>,
      <<<<"D", "i", "g", "e", "s", "t", " ", "x">>>> }

\* metadata.MD values: every subset of the two headers, with the values above
Metadatas ==
    {[ok |-> FALSE, hdr |-> NoVals], [ok |-> TRUE, hdr |-> NoVals]}
    \cup {[ok |-> TRUE, hdr |-> [k \in {VersionHeader} |-> v]] : v \in VersionHeaders}
    \cup {[ok |-> TRUE, hdr |-> [k \in {Authorization} |-> a]] : a \in AuthHeaders}
    \cup {[ok |-> TRUE, hdr |-> [k \in {VersionHeader, Authorization} |->
                                   IF k = VersionHeader THEN v ELSE a]] :
             v \in VersionHeaders, a \in AuthHeaders}

Cert(cn) == [CommonName |-> cn]

Peers ==
    { [ok |-> FALSE, tls |-> FALSE, chains |-> <<>>],
      [ok |-> TRUE, tls |-> FALSE, chains |-> <<>>],
      [ok |-> TRUE, tls |-> TRUE, chains |-> <<>>],
      [ok |-> TRUE, tls |-> TRUE, chains |-> <<<<>>>>],
      [ok |-> TRUE, tls |-> TRUE, chains |-> <<<<>>, <<Cert(<<"a">>)>>>>],
      [ok |-> TRUE, tls |-> TRUE, chains |-> <<<<Cert(<<"a">>), Cert(<<"r">>)>>>>],
      [ok |-> TRUE, tls |-> TRUE, chains |-> <<<<Cert(<<"b">>)>>, <<Cert(<<"a">>)>>>>] }

Clusters == {"ok", "badconfig", "unreachable"}

\* the context grpc hands to the interceptor: metadata and peer, no values
TransportCtx(md, peer) == [nil |-> FALSE, md |-> md, peer |-> peer, vals |-> NoVals]

NoCall == [kind |-> "none", method |-> EmptyStr, ctx |-> NilCtx, cluster |-> "ok",
           cancelled |-> FALSE]
NoOutcome == [trace |-> <<>>, err |-> NoErr, invoked |-> FALSE, hctx |-> NilCtx,
              stream |-> NoStream, herr |-> "pending", ret |-> "pending"]

(***************************************************************************)
(* The release store: client/clientset/release.go (ReleaseImpl, over a     *)
(* REST client) and client/clientset/fake/release.go (FakeRelease, over a  *)
(* testing.Fake with an object-tracker reactor).  Both turn each call into *)
(* one request to a backend and hand back what the backend answers.        *)
(***************************************************************************)
Nil == "nil"
NoLabels == [k \in {} |-> ""]

\* aci.Release: the fields of its ObjectMeta that matter, and its body
Release(name, namespace, labels, rv, payload) ==
    [Name |-> name, Namespace |-> namespace, Labels |-> labels,
     ResourceVersion |-> rv, Payload |-> payload]

\* &aci.Release{}
EmptyRelease == Release("", "", NoLabels, 0, "")

ErrNotFound == "NotFound"
ErrAlreadyExists == "AlreadyExists"
ErrConflict == "Conflict"
ErrBadRequest == "BadRequest"

\* labels.Selector: nil, or the label pairs it requires
NilSelector == [nil |-> TRUE, pairs |-> NoLabels]
SelectorFromSet(pairs) == [nil |-> FALSE, pairs |-> pairs]

\* api.ListOptions
ListOptions(sel) == [LabelSelector |-> sel]

\* labels.Selector.Matches(labels.Set(...)) for an equality selector
Matches(sel, labels) ==
    \A k \in DOMAIN sel.pairs : k \in DOMAIN labels /\ labels[k] = sel.pairs[k]

\* one request as the backend receives it
Request(verb, namespace, name, sub, body, opts) ==
    [verb |-> verb, ns |-> namespace, name |-> name, sub |-> sub,
     body |-> body, opts |-> opts]

(***************************************************************************)
(* The backend behind rest.Interface / testing.Fake: the cluster's generic *)
(* verbs on namespaced resources.  It keeps one record per (namespace,     *)
(* name), in the order created.  pol.optimistic: it assigns revision       *)
(* tokens and rejects an update whose token is not the stored one.         *)
(* pol.pushdown: it evaluates the label selector of a list itself.         *)
(***************************************************************************)
IndexIn(items, namespace, name) ==
    IF \E i \in 1..Len(items) : items[i].Namespace = namespace /\ items[i].Name = name
    THEN CHOOSE i \in 1..Len(items) :
             items[i].Namespace = namespace /\ items[i].Name = name
    ELSE 0

\* what the backend answers: an error, or an object, or neither (obj unset)
Answer(b, err, obj) == [backend |-> b, err |-> err, nil |-> FALSE, obj |-> obj]
NoObject(b, err) == [backend |-> b, err |-> err, nil |-> TRUE, obj |-> EmptyRelease]

\* the record stored for a body submitted under namespace ns
Stored(b, pol, namespace, body) ==
    [body EXCEPT !.Namespace = namespace,
                 !.ResourceVersion = IF pol.optimistic THEN b.rev + 1 ELSE @]

BackendGet(b, req, i) ==
    IF i = 0 THEN NoObject(b, ErrNotFound) ELSE Answer(b, NoErr, b.items[i])

BackendList(b, pol, req) ==
    Answer(b, NoErr,
           SelectSeq(b.items,
                     LAMBDA r : /\ r.Namespace = req.ns
                                /\ \/ ~pol.pushdown
                                   \/ req.opts.LabelSelector.nil
                                   \/ Matches(req.opts.LabelSelector, r.Labels)))

BackendCreate(b, pol, req, i) ==
    IF req.body.Namespace \notin {"", req.ns}
    THEN NoObject(b, ErrBadRequest)
    ELSE IF i # 0
    THEN NoObject(b, ErrAlreadyExists)
    ELSE Answer([items |-> Append(b.items, Stored(b, pol, req.ns, req.body)),
                 rev |-> b.rev + 1],
                NoErr, Stored(b, pol, req.ns, req.body))

BackendUpdate(b, pol, req, i) ==
    IF req.body.Namespace \notin {"", req.ns} \/ req.body.Name # req.name
    THEN NoObject(b, ErrBadRequest)
    ELSE IF i = 0
    THEN NoObject(b, ErrNotFound)
    ELSE IF pol.optimistic /\ req.body.ResourceVersion # b.items[i].ResourceVersion
    THEN NoObject(b, ErrConflict)
    ELSE Answer([items |-> [b.items EXCEPT ![i] = Stored(b, pol, req.ns, req.body)],
                 rev |-> b.rev + 1],
                NoErr, Stored(b, pol, req.ns, req.body))

BackendDelete(b, req, i) ==
    IF i = 0
    THEN NoObject(b, ErrNotFound)
    ELSE Answer([items |-> [k \in 1..(Len(b.items) - 1) |->
                               IF k < i THEN b.items[k] ELSE b.items[k + 1]],
                 rev |-> b.rev],
                NoErr, EmptyRelease)

\* Do(): the backend serves one request
Do(b, pol, req) ==
    CASE req.verb = "get" -> BackendGet(b, req, IndexIn(b.items, req.ns, req.name))
      [] req.verb = "list" -> BackendList(b, pol, req)
      [] req.verb = "create" ->
             BackendCreate(b, pol, req, IndexIn(b.items, req.ns, req.body.Name))
      [] req.verb = "update" ->
             BackendUpdate(b, pol, req, IndexIn(b.items, req.ns, req.name))
      [] req.verb = "delete" -> BackendDelete(b, req, IndexIn(b.items, req.ns, req.name))

(***************************************************************************)
(* ReleaseImpl (client/clientset/release.go).  Each method yields the      *)
(* request it builds; Into(result) leaves result the empty release when    *)
(* the backend answers with an error.                                      *)
(***************************************************************************)
\* variant: the request is not made under the store's namespace
ReleaseImplGetNoNamespace(cns, name) == Request("get", "", name, "", Nil, Nil)

ReleaseImplList(cns, opts) == Request("list", cns, "", "", Nil, opts)
ReleaseImplGet(cns, name) == Request("get", cns, name, "", Nil, Nil)
\* variant: the release is sent with Put to its name, as Update sends it
ReleaseImplCreatePut(cns, release) ==
    Request("update", cns, release.Name, "", release, Nil)

ReleaseImplCreate(cns, release) == Request("create", cns, "", "", release, Nil)
\* variant: the release is sent without its revision token
ReleaseImplUpdateNoToken(cns, release) ==
    Request("update", cns, release.Name, "", [release EXCEPT !.ResourceVersion = 0], Nil)

ReleaseImplUpdate(cns, release) == Request("update", cns, release.Name, "", release, Nil)
ReleaseImplDelete(cns, name) == Request("delete", cns, name, "", Nil, Nil)
ReleaseImplUpdateStatus(cns, release) ==
    Request("update", cns, release.Name, "status", release, Nil)

\* Do().Into(result), and Do().Error() for Delete
Into(kind, ans) ==
    IF kind = "Delete" THEN [err |-> ans.err, nil |-> TRUE, out |-> EmptyRelease]
    ELSE IF ans.err # NoErr
    THEN [err |-> ans.err, nil |-> FALSE,
          out |-> IF kind = "List" THEN <<>> ELSE EmptyRelease]
    ELSE [err |-> NoErr, nil |-> FALSE, out |-> ans.obj]

(***************************************************************************)
(* FakeRelease (client/clientset/fake/release.go).  Each method yields the *)
(* action it hands to Fake.Invokes; Create, Update and UpdateStatus first  *)
(* set r.Namespace = mock.ns; List filters what comes back by the label    *)
(* selector of the options.                                                *)
(***************************************************************************)
FakeReleaseGet(mns, name) == Request("get", mns, name, "", Nil, Nil)
FakeReleaseList(mns, opts) == Request("list", mns, "", "", Nil, opts)
FakeReleaseCreate(mns, r) ==
    Request("create", mns, "", "", [r EXCEPT !.Namespace = mns], Nil)
FakeReleaseUpdate(mns, r) ==
    Request("update", mns, r.Name, "", [r EXCEPT !.Namespace = mns], Nil)
\* variant: the action is not made under the store's namespace
FakeReleaseDeleteNoNamespace(mns, name) == Request("delete", "", name, "", Nil, Nil)

FakeReleaseDelete(mns, name) == Request("delete", mns, name, "", Nil, Nil)
FakeReleaseUpdateStatus(mns, r) ==
    Request("update", mns, r.Name, "status", [r EXCEPT !.Namespace = mns], Nil)

\* variant: what comes back is not filtered
FakeListFilterNone(items, opts) == items

\* label, _, _ := testing.ExtractFromListOptions(opts); nil means Everything()
FakeListFilter(items, opts) ==
    SelectSeq(items, LAMBDA item : \/ opts.LabelSelector.nil
                                   \/ Matches(opts.LabelSelector, item.Labels))

\* what the fake's method returns from what Invokes returned
Invoked(kind, opts, ans) ==
    IF kind = "Delete" THEN [err |-> ans.err, nil |-> TRUE, out |-> EmptyRelease]
    ELSE IF ans.nil THEN [err |-> ans.err, nil |-> TRUE, out |-> EmptyRelease]
    ELSE IF kind = "List"
    THEN [err |-> ans.err, nil |-> FALSE, out |-> FakeListFilter(ans.obj, opts)]
    ELSE [err |-> ans.err, nil |-> FALSE, out |-> ans.obj]

\* the request of the client in use
RequestOf(cl, kind, cns, arg) ==
    IF cl = "real"
    THEN CASE kind = "Get" -> ReleaseImplGet(cns, arg)
           [] kind = "List" -> ReleaseImplList(cns, arg)
           [] kind = "Create" -> ReleaseImplCreate(cns, arg)
           [] kind = "Update" -> ReleaseImplUpdate(cns, arg)
           [] kind = "Delete" -> ReleaseImplDelete(cns, arg)
           [] kind = "UpdateStatus" -> ReleaseImplUpdateStatus(cns, arg)
    ELSE CASE kind = "Get" -> FakeReleaseGet(cns, arg)
           [] kind = "List" -> FakeReleaseList(cns, arg)
           [] kind = "Create" -> FakeReleaseCreate(cns, arg)
           [] kind = "Update" -> FakeReleaseUpdate(cns, arg)
           [] kind = "Delete" -> FakeReleaseDelete(cns, arg)
           [] kind = "UpdateStatus" -> FakeReleaseUpdateStatus(cns, arg)

\* what the client in use returns to its caller
ReturnOf(cl, kind, arg, ans) ==
    IF cl = "real" THEN Into(kind, ans) ELSE Invoked(kind, arg, ans)

(***************************************************************************)
(* Inputs of the store                                                     *)
(***************************************************************************)
MaxRevision == 3

Names == {"n1", "n2"}
StoreNamespace == "ns1"
OtherNamespace == "ns2"

Web == [tier |-> "web"]
WebX == [tier |-> "web", env |-> "x"]
Db == [tier |-> "db"]

\* labels and payload of the releases callers submit
Bodies == {<<Web, "p1">>, <<WebX, "p2">>, <<Db, "p2">>}

\* the releases callers create: with the store's namespace or another in the
\* namespace field, and no revision token
NewReleases ==
    {Release(n, nsp, b[1], 0, b[2]) :
         n \in Names, nsp \in {StoreNamespace, OtherNamespace}, b \in Bodies}

\* the releases callers submit as updates: with a revision token read earlier
ChangedReleases ==
    {Release(n, nsp, b[1], rv, b[2]) :
         n \in Names, nsp \in {StoreNamespace, OtherNamespace},
         b \in {<<Web, "p1">>, <<Db, "p2">>}, rv \in 1..MaxRevision}

\* the releases whose status callers submit
StatusReleases == {r \in ChangedReleases : r.Name = "n1" /\ r.Payload = "p1"}

Selectors ==
    {NilSelector, SelectorFromSet(NoLabels), SelectorFromSet(Web), SelectorFromSet(Db)}

Policies == [optimistic : BOOLEAN, pushdown : BOOLEAN]

\* what the backend holds when the store is made: nothing, a release of another
\* namespace, or releases of both namespaces
InitialBackends ==
    { [items |-> <<>>, rev |-> 0],
      [items |-> <<Release("n1", OtherNamespace, Web, 1, "p1")>>, rev |-> 1],
      [items |-> <<Release("n1", StoreNamespace, NoLabels, 1, "p1")>>, rev |-> 1] }

NoOp == [kind |-> "none", arg |-> Nil, req |-> Nil, err |-> NoErr, nil |-> TRUE,
         out |-> EmptyRelease, before |-> <<>>, reused |-> FALSE]

\* what the store's own calls tell of a name: nothing yet, written, or deleted
NotWritten == [state |-> "unknown", release |-> EmptyRelease]
Written(release) == [state |-> "written", release |-> release]
Deleted == [state |-> "deleted", release |-> EmptyRelease]

\* the store as it is while the gateway is looked at
StoreAtRest ==
    /\ iface = "real"
    /\ ns = StoreNamespace
    /\ backend = [items |-> <<>>, rev |-> 0]
    /\ policy = [optimistic |-> TRUE, pushdown |-> TRUE]
    /\ lastOp = NoOp
    /\ written = [n \in Names |-> NotWritten]
    /\ consumed = {}

(***************************************************************************)
(* The storage factory (NewStorage, ensureResource) as each starting       *)
(* gateway instance runs it against the one cluster.                       *)
(***************************************************************************)
MaxInstances == 2
Instances == 1..MaxInstances

StorageMemory == "memory"
StorageConfigMap == "configmap"
StorageInlineTPR == "inline-tpr"
StorageObjectStoreTPR == "object-store-tpr"

\* the cases of the switch on opts.ObjectStoreProvider: s3.Kind, gcs.Kind,
\* azure.Kind, swift.Kind
KnownProviders == {"s3", "google", "azure", "swift"}

StoreOptions(storeType, provider) ==
    [StoreType |-> storeType, ObjectStoreProvider |-> provider]

ErrConnection == "Cannot initialize Kubernetes connection"
ErrUnavailable == "ServiceUnavailable"
ErrUnknownProvider == "Unknown provider"
ErrKeyFile == "Cannot read json key file"
ErrDial == "Cannot connect to object store"
ErrContainer == "Cannot find container"
ErrConfigOrDie == "NewExtensionsForConfigOrDie: panic"
ErrUnknowStoreType == "Unknow store type"

\* the cluster's third party resources: whether "release.helm.sh" is
\* registered, and how many Creates of it the cluster has accepted
NoRegistry == [present |-> FALSE, created |-> 0]
Registered == [present |-> TRUE, created |-> 0]

\* ThirdPartyResources().Get("release." + Group): the error returned.
\* fault: the request did not get through
TPRGet(reg, fault) ==
    IF fault THEN ErrUnavailable
    ELSE IF reg.present THEN NoErr
    ELSE ErrNotFound

\* ThirdPartyResources().Create(tpr): the error returned and the registry after
TPRCreate(reg, fault) ==
    IF fault THEN [err |-> ErrUnavailable, registry |-> reg]
    ELSE IF reg.present THEN [err |-> ErrAlreadyExists, registry |-> reg]
    ELSE [err |-> NoErr,
          registry |-> [present |-> TRUE, created |-> reg.created + 1]]

\* kberrs.IsNotFound(err)
IsNotFound(err) == err = ErrNotFound

\* an instance that has not called NewStorage yet
Starting(opts) ==
    [pc |-> "start", opts |-> opts, seen |-> "none", driver |-> "none",
     err |-> NoErr, cause |-> "none"]

\* os.Exit(1) after the message was printed (a panic of ...OrDie likewise)
Exit(r, cause) == [r EXCEPT !.pc = "exited", !.cause = cause]

\* return Init(driver), nil
ReturnStorage(r, driver) == [r EXCEPT !.pc = "returned", !.driver = driver]

\* return nil, fmt.Errorf("Unknow store type %v", opts.StoreType)
ReturnError(r) == [r EXCEPT !.pc = "returned", !.err = ErrUnknowStoreType]

\* NewStorage as it would be with the bootstrap done ahead of the switch
NewStorageEnterBootstrapFirst(r, connected) ==
    IF ~connected THEN Exit(r, ErrConnection) ELSE [r EXCEPT !.pc = "ensure"]

\* NewStorage from its entry to the end of a case without cluster bootstrap,
\* or to the call of ensureResource
NewStorageEnter(r, connected) ==
    IF ~connected THEN Exit(r, ErrConnection)
    ELSE IF r.opts.StoreType = StorageMemory THEN ReturnStorage(r, "Memory")
    ELSE IF r.opts.StoreType = StorageConfigMap THEN ReturnStorage(r, "ConfigMaps")
    ELSE IF r.opts.StoreType \in {StorageInlineTPR, StorageObjectStoreTPR}
    THEN [r EXCEPT !.pc = "ensure"]
    ELSE ReturnError(r)

\* ensureResource after its Get returned err: the Create is attempted only on
\* IsNotFound; with nil and with any other error the function returns
EnsureResourceGot(r, err) ==
    [r EXCEPT !.seen = err,
              !.pc = IF IsNotFound(err) THEN "create" ELSE "construct"]

\* ensureResource after its Create returned err: any error is fatal
EnsureResourceCreated(r, err) ==
    IF err # NoErr THEN Exit(r, err) ELSE [r EXCEPT !.pc = "construct"]

\* NewStorage after ensureResource returned.  dial: what reading the GCS key
\* file (a path is configured), stow.Dial and loc.Container meet; valid:
\* whether the client config is usable
NewStorageConstruct(r, dial, valid) ==
    IF r.opts.StoreType = StorageInlineTPR
    THEN IF valid THEN ReturnStorage(r, "Releases") ELSE Exit(r, ErrConfigOrDie)
    ELSE IF r.opts.ObjectStoreProvider \notin KnownProviders
         THEN Exit(r, ErrUnknownProvider)
    ELSE IF r.opts.ObjectStoreProvider = "google" /\ dial = "nokeyfile"
         THEN Exit(r, ErrKeyFile)
    ELSE IF dial = "unreachable" THEN Exit(r, ErrDial)
    ELSE IF dial = "nocontainer" THEN Exit(r, ErrContainer)
    ELSE IF valid THEN ReturnStorage(r, "ObjectStoreReleases")
    ELSE Exit(r, ErrConfigOrDie)

StoreTypes ==
    {StorageMemory, StorageConfigMap, StorageInlineTPR, StorageObjectStoreTPR, "etcd"}
Providers == {"s3", "google", "ftp"}
AllStoreOptions == {StoreOptions(t, p) : t \in StoreTypes, p \in Providers}
DialOutcomes == {"ok", "nokeyfile", "unreachable", "nocontainer"}

\* no instance is starting while the gateway or the store is looked at
FactoryAtRest ==
    /\ registry = Registered
    /\ inst = [i \in Instances |-> Starting(StoreOptions(StorageMemory, "s3"))]

(***************************************************************************)
(* The memory driver (driver.NewMemory()): a process-local map from        *)
(* release name to release, shared by the calls running concurrently and   *)
(* guarded by one mutual-exclusion lock.  Storing into the map is not one  *)
(* step: the key is there before the body is.                              *)
(***************************************************************************)
MaxTasks == 3
Tasks == 1..MaxTasks

Absent == [state |-> "absent", body |-> "none"]
Reserved == [state |-> "reserved", body |-> "none"]
Held(body) == [state |-> "stored", body |-> body]

\* a call of the driver that has not started: op is "Create" or "Get"
MemoryCall(op, name, body) ==
    [pc |-> "call", op |-> op, name |-> name, body |-> body,
     err |-> "none", saw |-> Absent]

\* whether the lock can be taken
MemoryLockFreeAlways(holder) == TRUE
MemoryLockFree(holder) == holder = "none"

\* Create under the lock, up to the key being in the map
MemoryCreateCheck(c, m) ==
    IF m[c.name].state # "absent"
    THEN [call |-> [c EXCEPT !.pc = "unlock", !.err = ErrAlreadyExists], mem |-> m]
    ELSE [call |-> [c EXCEPT !.pc = "write"],
          mem |-> [m EXCEPT ![c.name] = Reserved]]

\* Create under the lock: the body is stored
MemoryCreateWrite(c, m) ==
    [call |-> [c EXCEPT !.pc = "unlock", !.err = NoErr],
     mem |-> [m EXCEPT ![c.name] = Held(c.body)]]

\* Get under the lock: what the reader finds under the name
MemoryGet(c, m) ==
    [c EXCEPT !.pc = "unlock", !.saw = m[c.name],
              !.err = IF m[c.name].state = "absent" THEN ErrNotFound ELSE NoErr]

MemoryBodies == {"b1", "b2"}
MemoryCalls ==
    {MemoryCall("Create", n, b) : n \in Names, b \in MemoryBodies}
        \cup {MemoryCall("Get", n, "none") : n \in Names}
InitialMemories ==
    {[n \in Names |-> Absent], [n \in Names |-> IF n = "n2" THEN Held("b0") ELSE Absent]}

\* no call of the memory driver is running while the rest is looked at
MemoryAtRest ==
    /\ mem = [n \in Names |-> Absent]
    /\ mu = "none"
    /\ task = [t \in Tasks |-> MemoryCall("Get", "n1", "none")]

(***************************************************************************)
(* The storage namespace (namespace() of the storage factory): read from   *)
(* the process environment and the service account's namespace file when   *)
(* NewStorage builds the driver's client.                                  *)
(***************************************************************************)
MaxOps == 2

\* environment.DefaultTillerNamespace
DefaultTillerNamespace == <<"k">>

\* unicode.IsSpace for the characters used here
IsSpace(c) == c \in {" ", "\n", "\t"}

\* strings.TrimSpace(s)
TrimSpace(s) ==
    LET solid == {i \in 1..Len(s) : ~IsSpace(s[i])}
    IN  IF solid = {} THEN EmptyStr
        ELSE SubSeq(s, CHOOSE i \in solid : \A j \in solid : i <= j,
                       CHOOSE i \in solid : \A j \in solid : i >= j)

\* the process's surroundings: os.Getenv("TILLER_NAMESPACE") and
\* /var/run/secrets/kubernetes.io/serviceaccount/namespace
Environ(tillerNamespace, readable, data) ==
    [TILLER_NAMESPACE |-> tillerNamespace, readable |-> readable, data |-> data]

\* namespace() with the service account file consulted ahead of the variable
namespaceFileFirst(e) ==
    IF e.readable /\ Len(TrimSpace(e.data)) > 0 THEN TrimSpace(e.data)
    ELSE IF e.TILLER_NAMESPACE # EmptyStr THEN e.TILLER_NAMESPACE
    ELSE DefaultTillerNamespace

\* namespace()
namespace(e) ==
    IF e.TILLER_NAMESPACE # EmptyStr THEN e.TILLER_NAMESPACE
    ELSE IF e.readable /\ Len(TrimSpace(e.data)) > 0 THEN TrimSpace(e.data)
    ELSE DefaultTillerNamespace

\* Namespace(c.ns) of a request of the store's client: the field set by
\* newRelease, whatever the surroundings are by now
RequestNamespace(n, e) == n

EnvValues == {EmptyStr, <<"t">>}
FileContents == {EmptyStr, <<" ", "\n">>, <<"f">>, <<" ", "f", " ", "g", "\n">>}
Environs ==
    {Environ(v, TRUE, d) : v \in EnvValues, d \in FileContents}
        \cup {Environ(v, FALSE, EmptyStr) : v \in EnvValues}

NotStarted == [done |-> FALSE, environ |-> Environ(EmptyStr, FALSE, EmptyStr)]

\* the surroundings are not looked at while the rest is
NamespaceAtRest ==
    /\ environ = Environ(EmptyStr, FALSE, EmptyStr)
    /\ startup = NotStarted
    /\ used = <<>>

(***************************************************************************)
(* The gateway serving calls                                               *)
(***************************************************************************)
Init ==
    /\ impl \in {"server", "legacy"}
    /\ syscfg \in SysConfigs
    /\ pc = "idle"
    /\ call = NoCall
    /\ outcome = NoOutcome
    /\ ssLog = <<>>
    /\ wLog = <<>>
    /\ StoreAtRest
    /\ FactoryAtRest
    /\ MemoryAtRest
    /\ NamespaceAtRest

\* the rest.Config the gateway's syscfg pointer leads to, once the interceptor
\* is through with a call: the bearer and basic verifiers only read it (their
\* usrcfg is a new &rest.Config{...}), the certificate verifier copies it
\* before setting Impersonate
SysConfigAfter(build, ctx, cfg, o) ==
    IF /\ \E i \in 1..Len(o.trace) : o.trace[i].op = "checkClientCert"
       /\ checkClientCert(ctx, cfg).err = NoErr
    THEN Impersonated(cfg, checkClientCert(ctx, cfg).ctx.vals[UserInfoKey].Username).syscfg
    ELSE cfg

\* the requests a verifier sends to the cluster and blocks on
ClusterRequests == {"TokenReview", "ServerVersion"}

\* the interceptor ran to its return or to its call of the handler.  cancelled:
\* the caller cancelled the call while a verifier's cluster request was
\* outstanding; neither the interceptors nor the verifiers read ctx.Done() or
\* ctx.Err(), and the requests are issued without the context, so nothing of
\* what the interceptor does depends on it
Served(kind, fullMethod, ctx, cluster, cancelled, o) ==
    /\ cancelled => \E i \in 1..Len(o.trace) : o.trace[i].op \in ClusterRequests
    /\ call' = [kind |-> kind, method |-> fullMethod, ctx |-> ctx, cluster |-> cluster,
                cancelled |-> cancelled]
    /\ outcome' = [trace |-> o.trace, err |-> o.err, invoked |-> o.invoked,
                   hctx |-> o.hctx, stream |-> o.stream, herr |-> "pending",
                   ret |-> IF o.invoked THEN "pending" ELSE o.err]
    /\ pc' = IF o.invoked THEN "handler" ELSE "done"
    /\ ssLog' = <<>>
    /\ wLog' = <<>>
    /\ syscfg' = SysConfigAfter(impl, ctx, syscfg, o)
    /\ UNCHANGED impl
    /\ UNCHANGED storeVars
    /\ UNCHANGED bootVars
    /\ UNCHANGED memVars
    /\ UNCHANGED namespaceVars

UnaryCall ==
    /\ pc = "idle"
    /\ \E fm \in FullMethods, md \in Metadatas, peer \in Peers, cluster \in Clusters,
          cancelled \in BOOLEAN :
          Served("unary", fm, TransportCtx(md, peer), cluster, cancelled,
                 newUnaryInterceptor(impl, TransportCtx(md, peer), fm, syscfg, cluster))

StreamCall ==
    /\ pc = "idle"
    /\ \E fm \in FullMethods, md \in Metadatas, peer \in Peers, cluster \in Clusters,
          cancelled \in BOOLEAN :
          Served("stream", fm, TransportCtx(md, peer), cluster, cancelled,
                 newStreamInterceptor(impl, TransportCtx(md, peer), fm, syscfg, cluster))

\* the streaming handler uses the stream it was handed
InHandler ==
    /\ pc = "handler"
    /\ call.kind = "stream"
    /\ Len(wLog) < MaxStreamOps

\* ssRet is what the underlying stream returns to each call it receives
Forwarded(op, arg, ssRet, r) ==
    /\ ssLog' = ssLog \o [i \in 1..Len(r.calls) |->
                              [op |-> r.calls[i].op, arg |-> r.calls[i].arg, ret |-> ssRet]]
    /\ wLog' = Append(wLog, [op |-> op, arg |-> arg, ret |-> r.ret])
    /\ UNCHANGED <<impl, syscfg, pc, call, outcome>>
    /\ UNCHANGED storeVars
    /\ UNCHANGED bootVars
    /\ UNCHANGED memVars
    /\ UNCHANGED namespaceVars

HandlerContext ==
    /\ InHandler
    /\ wLog' = Append(wLog, [op |-> "Context", arg |-> "none", ret |-> Context(outcome.stream)])
    /\ UNCHANGED <<impl, syscfg, pc, call, outcome, ssLog>>
    /\ UNCHANGED storeVars
    /\ UNCHANGED bootVars
    /\ UNCHANGED memVars
    /\ UNCHANGED namespaceVars

HandlerRecvMsg ==
    /\ InHandler
    /\ \E ssRet \in {"m1", "EOF"} :
          Forwarded("RecvMsg", "buf", ssRet, RecvMsg(outcome.stream, "buf", ssRet))

HandlerSendMsg ==
    /\ InHandler
    /\ \E msg \in {"m1", "m2"}, ssRet \in {NoErr, "EOF"} :
          Forwarded("SendMsg", msg, ssRet, SendMsg(outcome.stream, msg, ssRet))

HandlerSendHeader ==
    /\ InHandler
    /\ \E ssRet \in {NoErr, "header sent"} :
          Forwarded("SendHeader", "h1", ssRet, SendHeader(outcome.stream, "h1", ssRet))

HandlerSetHeader ==
    /\ InHandler
    /\ \E ssRet \in {NoErr, "header sent"} :
          Forwarded("SetHeader", "h1", ssRet, SetHeader(outcome.stream, "h1", ssRet))

HandlerSetTrailer ==
    /\ InHandler
    /\ Forwarded("SetTrailer", "t1", "void", SetTrailer(outcome.stream, "t1", "void"))

\* the handler returns; the interceptor returns its result unchanged
HandlerReturn ==
    /\ pc = "handler"
    /\ \E herr \in {NoErr, "handler failed"} :
          outcome' = [outcome EXCEPT !.herr = herr, !.ret = herr]
    /\ pc' = "done"
    /\ UNCHANGED <<impl, syscfg, call, ssLog, wLog>>
    /\ UNCHANGED storeVars
    /\ UNCHANGED bootVars
    /\ UNCHANGED memVars
    /\ UNCHANGED namespaceVars

\* the interceptor has returned to grpc; nothing of the call is kept
Return ==
    /\ pc = "done"
    /\ pc' = "idle"
    /\ call' = NoCall
    /\ outcome' = NoOutcome
    /\ ssLog' = <<>>
    /\ wLog' = <<>>
    /\ UNCHANGED <<impl, syscfg>>
    /\ UNCHANGED storeVars
    /\ UNCHANGED bootVars
    /\ UNCHANGED memVars
    /\ UNCHANGED namespaceVars

Next ==
    \/ UnaryCall
    \/ StreamCall
    \/ HandlerContext
    \/ HandlerRecvMsg
    \/ HandlerSendMsg
    \/ HandlerSendHeader
    \/ HandlerSetHeader
    \/ HandlerSetTrailer
    \/ HandlerReturn
    \/ Return

Spec == Init /\ [][Next]_vars

(***************************************************************************)
(* The store serving calls: one ReleaseInterface of namespace ns, used by  *)
(* any number of callers, one call at a time at the backend.               *)
(***************************************************************************)
StoreInit ==
    /\ impl = "server"
    /\ syscfg \in SysConfigs
    /\ pc = "idle"
    /\ call = NoCall
    /\ outcome = NoOutcome
    /\ ssLog = <<>>
    /\ wLog = <<>>
    /\ iface \in {"real", "fake"}
    /\ ns = StoreNamespace
    /\ backend \in InitialBackends
    /\ policy \in Policies
    /\ lastOp = NoOp
    /\ written = [n \in Names |-> NotWritten]
    /\ consumed = {}
    /\ FactoryAtRest
    /\ MemoryAtRest
    /\ NamespaceAtRest

Writes == {"Create", "Update", "UpdateStatus"}

\* the call has returned ret to its caller; the backend answered ans to req
Performed(kind, arg, req, ans, ret) ==
    /\ backend' = ans.backend
    /\ lastOp' = [kind |-> kind, arg |-> arg, req |-> req, err |-> ret.err,
                  nil |-> ret.nil, out |-> ret.out,
                before |-> backend.items,
                reused |-> /\ kind \in {"Update", "UpdateStatus"}
                           /\ <<req.name, req.body.ResourceVersion>> \in consumed]
    /\ written' = IF kind \in Writes /\ ret.err = NoErr
                  THEN [written EXCEPT ![req.body.Name] = Written(ret.out)]
                  ELSE IF kind = "Delete" /\ ret.err = NoErr
                  THEN [written EXCEPT ![req.name] = Deleted]
                  ELSE written
    /\ consumed' = IF kind \in {"Update", "UpdateStatus"} /\ ret.err = NoErr
                   THEN consumed \cup {<<req.name, req.body.ResourceVersion>>}
                   ELSE consumed
    /\ UNCHANGED <<iface, ns, policy>>
    /\ UNCHANGED gatewayVars
    /\ UNCHANGED bootVars
    /\ UNCHANGED memVars
    /\ UNCHANGED namespaceVars

Answered(kind, arg, req, ans) ==
    Performed(kind, arg, req, ans, ReturnOf(iface, kind, arg, ans))

Exchange(kind, arg, req) == Answered(kind, arg, req, Do(backend, policy, req))

Perform(kind, arg) == Exchange(kind, arg, RequestOf(iface, kind, ns, arg))

\* the store is used from outside the gateway's calls here
Get ==
    /\ pc = "idle"
    /\ \E name \in Names : Perform("Get", name)

List ==
    /\ pc = "idle"
    /\ \E sel \in Selectors : Perform("List", ListOptions(sel))

Create ==
    /\ backend.rev < MaxRevision
    /\ \E release \in NewReleases : Perform("Create", release)

Update ==
    /\ backend.rev < MaxRevision
    /\ \E release \in ChangedReleases : Perform("Update", release)

Delete ==
    /\ pc = "idle"
    /\ \E name \in Names : Perform("Delete", name)

UpdateStatus ==
    /\ backend.rev < MaxRevision
    /\ \E release \in StatusReleases : Perform("UpdateStatus", release)

StoreNext ==
    \/ Get
    \/ List
    \/ Create
    \/ Update
    \/ Delete
    \/ UpdateStatus

StoreSpec == StoreInit /\ [][StoreNext]_vars

(***************************************************************************)
(* Gateway instances starting: each runs NewStorage once; the requests of  *)
(* different instances to the cluster interleave.                          *)
(***************************************************************************)
StorageInit ==
    /\ impl = "server"
    /\ syscfg \in SysConfigs
    /\ pc = "idle"
    /\ call = NoCall
    /\ outcome = NoOutcome
    /\ ssLog = <<>>
    /\ wLog = <<>>
    /\ StoreAtRest
    /\ registry \in {NoRegistry, Registered}
    /\ inst \in [Instances -> {Starting(o) : o \in AllStoreOptions}]
    /\ MemoryAtRest
    /\ NamespaceAtRest

Stepped(i, r) ==
    /\ inst' = [inst EXCEPT ![i] = r]
    /\ UNCHANGED gatewayVars
    /\ UNCHANGED storeVars
    /\ UNCHANGED memVars
    /\ UNCHANGED namespaceVars

NewStorage(i) ==
    /\ inst[i].pc = "start"
    /\ \E connected \in BOOLEAN : Stepped(i, NewStorageEnter(inst[i], connected))
    /\ UNCHANGED registry

EnsureResourceGet(i) ==
    /\ inst[i].pc = "ensure"
    /\ \E fault \in BOOLEAN :
           Stepped(i, EnsureResourceGot(inst[i], TPRGet(registry, fault)))
    /\ UNCHANGED registry

EnsureResourceCreate(i) ==
    /\ inst[i].pc = "create"
    /\ \E fault \in BOOLEAN :
           /\ registry' = TPRCreate(registry, fault).registry
           /\ Stepped(i, EnsureResourceCreated(inst[i], TPRCreate(registry, fault).err))

Construct(i) ==
    /\ inst[i].pc = "construct"
    /\ \E dial \in DialOutcomes, valid \in BOOLEAN :
           Stepped(i, NewStorageConstruct(inst[i], dial, valid))
    /\ UNCHANGED registry

StorageNext ==
    \E i \in Instances :
        \/ NewStorage(i)
        \/ EnsureResourceGet(i)
        \/ EnsureResourceCreate(i)
        \/ Construct(i)

StorageSpec == StorageInit /\ [][StorageNext]_vars

(***************************************************************************)
(* Calls of the memory driver running concurrently                         *)
(***************************************************************************)
MemoryInit ==
    /\ impl = "server"
    /\ syscfg \in SysConfigs
    /\ pc = "idle"
    /\ call = NoCall
    /\ outcome = NoOutcome
    /\ ssLog = <<>>
    /\ wLog = <<>>
    /\ StoreAtRest
    /\ FactoryAtRest
    /\ mem \in InitialMemories
    /\ mu = "none"
    /\ task \in [Tasks -> MemoryCalls]
    /\ NamespaceAtRest

Proceeded(t, c) ==
    /\ task' = [task EXCEPT ![t] = c]
    /\ UNCHANGED gatewayVars
    /\ UNCHANGED storeVars
    /\ UNCHANGED bootVars
    /\ UNCHANGED namespaceVars

Lock(t) ==
    /\ task[t].pc = "call"
    /\ MemoryLockFree(mu)
    /\ mu' = ToString(t)
    /\ Proceeded(t, [task[t] EXCEPT !.pc = "locked"])
    /\ UNCHANGED mem

CreateCheck(t) ==
    /\ task[t].pc = "locked"
    /\ task[t].op = "Create"
    /\ mem' = MemoryCreateCheck(task[t], mem).mem
    /\ Proceeded(t, MemoryCreateCheck(task[t], mem).call)
    /\ UNCHANGED mu

CreateWrite(t) ==
    /\ task[t].pc = "write"
    /\ mem' = MemoryCreateWrite(task[t], mem).mem
    /\ Proceeded(t, MemoryCreateWrite(task[t], mem).call)
    /\ UNCHANGED mu

Read(t) ==
    /\ task[t].pc = "locked"
    /\ task[t].op = "Get"
    /\ Proceeded(t, MemoryGet(task[t], mem))
    /\ UNCHANGED <<mem, mu>>

Unlock(t) ==
    /\ task[t].pc = "unlock"
    /\ mu' = "none"
    /\ Proceeded(t, [task[t] EXCEPT !.pc = "done"])
    /\ UNCHANGED mem

MemoryNext ==
    \E t \in Tasks :
        \/ Lock(t)
        \/ CreateCheck(t)
        \/ CreateWrite(t)
        \/ Read(t)
        \/ Unlock(t)

MemorySpec == MemoryInit /\ [][MemoryNext]_vars

(***************************************************************************)
(* One gateway process: its surroundings change at any time, NewStorage    *)
(* runs once, storage operations follow.                                   *)
(***************************************************************************)
NamespaceInit ==
    /\ impl = "server"
    /\ syscfg \in SysConfigs
    /\ pc = "idle"
    /\ call = NoCall
    /\ outcome = NoOutcome
    /\ ssLog = <<>>
    /\ wLog = <<>>
    /\ iface = "real"
    /\ ns = EmptyStr
    /\ backend = [items |-> <<>>, rev |-> 0]
    /\ policy = [optimistic |-> TRUE, pushdown |-> TRUE]
    /\ lastOp = NoOp
    /\ written = [n \in Names |-> NotWritten]
    /\ consumed = {}
    /\ FactoryAtRest
    /\ MemoryAtRest
    /\ environ \in Environs
    /\ startup = NotStarted
    /\ used = <<>>

NamespaceFrame ==
    /\ UNCHANGED gatewayVars
    /\ UNCHANGED <<iface, backend, policy, lastOp, written, consumed>>
    /\ UNCHANGED bootVars
    /\ UNCHANGED memVars

\* os.Setenv / the variable set differently from outside
Setenv ==
    /\ \E v \in EnvValues : environ' = [environ EXCEPT !.TILLER_NAMESPACE = v]
    /\ environ' # environ
    /\ UNCHANGED <<ns, startup, used>>
    /\ NamespaceFrame

\* the service account file is mounted, rewritten or gone
FileChange ==
    /\ \E e \in Environs : environ' = [e EXCEPT !.TILLER_NAMESPACE = environ.TILLER_NAMESPACE]
    /\ environ' # environ
    /\ UNCHANGED <<ns, startup, used>>
    /\ NamespaceFrame

\* NewStorage: cs.Release(namespace())
Startup ==
    /\ ~startup.done
    /\ ns' = namespace(environ)
    /\ startup' = [done |-> TRUE, environ |-> environ]
    /\ UNCHANGED <<environ, used>>
    /\ NamespaceFrame

\* one request of the store's client
Operation ==
    /\ startup.done
    /\ Len(used) < MaxOps
    /\ used' = Append(used, RequestNamespace(ns, environ))
    /\ UNCHANGED <<environ, ns, startup>>
    /\ NamespaceFrame

NamespaceNext ==
    \/ Setenv
    \/ FileChange
    \/ Startup
    \/ Operation

NamespaceSpec == NamespaceInit /\ [][NamespaceNext]_vars

(***************************************************************************)
(* Vocabulary of the properties                                            *)
(***************************************************************************)
\* the error taxonomy, by the messages the gateway returns
VersionMismatch == {ErrIncompatible}
MissingMetadata == {ErrMissingMetadata}
UnknownAuthScheme == {ErrUnknownScheme}
InvalidCredentials == {ErrBase64, ErrMissingUserPass}
Unauthenticated ==
    {ErrNoPeer, ErrNoTLS, ErrNoCert, ErrNotAuthenticated, ErrTokenReview,
     ErrServerVersion, ErrClientSet}

VerifierNames == {"checkClientCert", "checkBearerAuth", "checkBasicAuth"}

IsCall == call.kind \in {"unary", "stream"}

\* first value of a header of the call, empty when the header is absent
FirstValue(key) ==
    IF /\ call.ctx.md.ok
       /\ key \in DOMAIN call.ctx.md.hdr
       /\ Len(call.ctx.md.hdr[key]) > 0
    THEN call.ctx.md.hdr[key][1]
    ELSE EmptyStr

LastSegment(fullMethod) == Split(fullMethod, "/")[Len(Split(fullMethod, "/"))]

IsGetVersion == LastSegment(call.method) = GetVersion

ClientCompatible == IsCompatible(FirstValue(VersionHeader), Version)

OpsOf(trace) == [i \in 1..Len(trace) |-> trace[i].op]

VerifiersRun == SelectSeq(OpsOf(outcome.trace), LAMBDA o : o \in VerifierNames)

HandlerRuns == Len(SelectSeq(OpsOf(outcome.trace), LAMBDA o : o = "handler"))

\* what authenticate returns for the call in flight
AuthResult == authenticateOf(impl, call.ctx, syscfg, call.cluster)

(***************************************************************************)
(* C1: a call to a method other than GetVersion whose client-version       *)
(* header is incompatible with the server (absent and empty included) is   *)
(* failed with the version-mismatch error; no credential verifier and no   *)
(* handler is invoked for it.                                              *)
(***************************************************************************)
C1_IncompatibleRejected ==
    (IsCall /\ ~IsGetVersion /\ ~ClientCompatible) =>
        /\ outcome.err \in VersionMismatch
        /\ outcome.ret = outcome.err
        /\ ~outcome.invoked
        /\ VerifiersRun = <<>>
        /\ HandlerRuns = 0
        /\ OpsOf(outcome.trace) = <<"checkClientVersion">>

\* a streaming List call without a version header but with a valid bearer token
C1_Witness ==
    /\ pc = "done"
    /\ call.kind = "stream"
    /\ ~IsGetVersion
    /\ call.ctx.md.ok
    /\ VersionHeader \notin DOMAIN call.ctx.md.hdr
    /\ FirstValue(Authorization) = BearerPrefix \o <<"x">>
    /\ call.cluster = "ok"
    /\ outcome.ret \in VersionMismatch

(***************************************************************************)
(* C2 as stated: a call to GetVersion is never failed with the             *)
(* version-mismatch error and always succeeds.                             *)
(***************************************************************************)
C2_GetVersionAlwaysSucceeds ==
    (IsCall /\ IsGetVersion) =>
        /\ outcome.err \notin VersionMismatch
        /\ outcome.invoked

(***************************************************************************)
(* C2 amended: a unary call to GetVersion is never failed with the         *)
(* version-mismatch error, whatever its client-version header; it goes on  *)
(* to authentication, and its handler is invoked exactly when authenticate *)
(* returns no error, the call failing with authenticate's error otherwise. *)
(***************************************************************************)
C2_UnaryGetVersionExempt ==
    (call.kind = "unary" /\ IsGetVersion) =>
        /\ outcome.err \notin VersionMismatch
        /\ Len(outcome.trace) >= 2
        /\ outcome.trace[2].op = "authenticate"
        /\ outcome.invoked <=> (AuthResult.err = NoErr)
        /\ ~outcome.invoked => (outcome.ret = AuthResult.err)

\* a unary GetVersion call with a malformed version and a verified certificate
C2_Witness ==
    /\ call.kind = "unary"
    /\ IsGetVersion
    /\ FirstValue(VersionHeader) = <<"d", "e", "v">>
    /\ ~ClientCompatible
    /\ outcome.invoked
    /\ pc = "handler"

\* the call carries metadata without a usable authorization header
NoAuthorization ==
    /\ call.ctx.md.ok
    /\ FirstValue(Authorization) = EmptyStr

\* no peer, no TLS info, no verified chain, or an empty first chain
NoVerifiedPeer ==
    \/ ~call.ctx.peer.ok
    \/ ~call.ctx.peer.tls
    \/ call.ctx.peer.chains = <<>>
    \/ call.ctx.peer.chains[1] = <<>>

\* the call got past the version gate: compatible, or an exempt unary GetVersion
PastVersionGate == ClientCompatible \/ (call.kind = "unary" /\ IsGetVersion)

(***************************************************************************)
(* C3: a call without (or with an empty) authorization header whose        *)
(* transport has no peer info, no TLS info or an empty verified chain      *)
(* never reaches the handler, and the certificate verifier it is routed to *)
(* fails it with an Unauthenticated error: authenticate is defined on it   *)
(* and yields one of the three certificate errors.                         *)
(***************************************************************************)
C3_NoCredentialUnauthenticated ==
    (IsCall /\ NoAuthorization /\ NoVerifiedPeer) =>
        /\ ~outcome.invoked
        /\ HandlerRuns = 0
        /\ outcome.ret # NoErr
        /\ AuthResult.err \in {ErrNoPeer, ErrNoTLS, ErrNoCert}
        /\ PastVersionGate =>
              /\ outcome.ret = AuthResult.err
              /\ outcome.ret \in Unauthenticated
              /\ VerifiersRun = <<"checkClientCert">>

\* a compatible call whose first verified chain is empty although a second is not
C3_Witness ==
    /\ pc = "done"
    /\ NoAuthorization
    /\ ClientCompatible
    /\ Len(call.ctx.peer.chains) = 2
    /\ call.ctx.peer.chains[1] = <<>>
    /\ outcome.ret = ErrNoCert

(***************************************************************************)
(* C4: in every execution of either interceptor the handler is invoked at  *)
(* most once, as the last step, and only after the version check passed    *)
(* (or the method was exempt) and the one selected verifier returned       *)
(* success; in every other outcome the call returns an error and the       *)
(* handler is not invoked.                                                 *)
(***************************************************************************)
\* the error of the verifier the trace names, computed on the call's inputs
VerifierErr(name) ==
    LET h == FirstValue(Authorization) IN
    IF name = "checkClientCert"
    THEN IF impl = "server" THEN checkClientCert(call.ctx, syscfg).err
         ELSE checkClientCertLegacy(call.ctx, syscfg).err
    ELSE IF name = "checkBearerAuth"
    THEN IF impl = "server" THEN checkBearerAuth(call.ctx, h, syscfg, call.cluster).err
         ELSE checkBearerAuthLegacy(h, syscfg, call.cluster).err
    ELSE IF impl = "server" THEN checkBasicAuth(call.ctx, h, syscfg, call.cluster).err
         ELSE checkBasicAuthLegacy(h, syscfg, call.cluster).err

C4_HandlerOnlyAfterChecks ==
    IsCall =>
        /\ HandlerRuns <= 1
        /\ outcome.invoked <=> (HandlerRuns = 1)
        /\ outcome.invoked =>
              /\ outcome.trace[Len(outcome.trace)].op = "handler"
              /\ outcome.trace[1].op = "checkClientVersion"
              /\ PastVersionGate
              /\ Len(VerifiersRun) = 1
              /\ VerifierErr(VerifiersRun[1]) = NoErr
              /\ outcome.err = NoErr
        /\ ~outcome.invoked =>
              /\ outcome.err # NoErr
              /\ outcome.ret = outcome.err
              /\ pc = "done"

\* a streaming call admitted on basic credentials, its handler still running
C4_Witness ==
    /\ pc = "handler"
    /\ call.kind = "stream"
    /\ VerifiersRun = <<"checkBasicAuth">>
    /\ HandlerRuns = 1
    /\ Len(wLog) = 1

(***************************************************************************)
(* C5: whenever the verifier succeeds, the context the handler is invoked  *)
(* with (for streaming, the context of the stream it is handed) carries    *)
(* the verified UserInfo, the user-scoped client or config and the system  *)
(* client or config, and carries the impersonation flag exactly when the   *)
(* certificate verifier authenticated the call.                            *)
(***************************************************************************)
C5_HandlerContextCarriesIdentity ==
    (IsCall /\ outcome.invoked) =>
        /\ HasValue(outcome.hctx, UserInfoKey)
        /\ HasValue(outcome.hctx, UserClientKey) \/ HasValue(outcome.hctx, UserClientConfigKey)
        /\ HasValue(outcome.hctx, SystemClientKey) \/ HasValue(outcome.hctx, SystemClientConfigKey)
        /\ HasValue(outcome.hctx, ImpersonateUserKey) <=> (VerifiersRun = <<"checkClientCert">>)

(***************************************************************************)
(* C6: credential dispatch is a total function of the first authorization  *)
(* header value: absent or empty runs the certificate verifier, a value    *)
(* starting with "Bearer " the bearer verifier, one starting with "Basic " *)
(* the basic verifier, each on that value; any other value fails with the  *)
(* unknown-scheme error and runs neither a verifier nor the handler.  A    *)
(* call that is authenticated ran exactly one verifier.                    *)
(***************************************************************************)
Scheme(h) ==
    IF h = EmptyStr THEN "checkClientCert"
    ELSE IF Len(h) >= 7 /\ SubSeq(h, 1, 7) = <<"B", "e", "a", "r", "e", "r", " ">>
    THEN "checkBearerAuth"
    ELSE IF Len(h) >= 6 /\ SubSeq(h, 1, 6) = <<"B", "a", "s", "i", "c", " ">>
    THEN "checkBasicAuth"
    ELSE "unknown"

\* the verifier events of the trace
VerifierEvents == SelectSeq(outcome.trace, LAMBDA e : e.op \in VerifierNames)

C6_DispatchByScheme ==
    /\ (IsCall /\ outcome.invoked) => Len(VerifiersRun) = 1
    /\ (IsCall /\ call.ctx.md.ok /\ PastVersionGate) =>
          LET h == FirstValue(Authorization) IN
          IF Scheme(h) = "unknown"
          THEN /\ outcome.ret \in UnknownAuthScheme
               /\ VerifiersRun = <<>>
               /\ ~outcome.invoked
               /\ HandlerRuns = 0
          ELSE /\ VerifierEvents = <<Ev(Scheme(h), h)>>
               /\ outcome.ret \notin UnknownAuthScheme

\* "Bearerx": the scheme word without its space is no scheme
C6_Witness ==
    /\ pc = "done"
    /\ ClientCompatible
    /\ FirstValue(Authorization) = <<"B", "e", "a", "r", "e", "r", "x">>
    /\ call.ctx.peer.ok /\ call.ctx.peer.tls /\ Len(call.ctx.peer.chains) = 1
    /\ outcome.ret = ErrUnknownScheme

(***************************************************************************)
(* C7 as stated: a call whose transport metadata is entirely absent fails  *)
(* with the missing-metadata error, and no credential verifier runs.       *)
(***************************************************************************)
C7_AbsentMetadataMissingMetadata ==
    (IsCall /\ ~call.ctx.md.ok) =>
        /\ outcome.ret \in MissingMetadata
        /\ VerifiersRun = <<>>

(***************************************************************************)
(* C7 amended: a call whose transport metadata is entirely absent is       *)
(* rejected without any credential verifier or the handler being invoked:  *)
(* with the missing-metadata error when it reaches authenticate, which     *)
(* only a unary GetVersion call does, and with the version-mismatch error  *)
(* of the version check, which runs first, otherwise.                      *)
(***************************************************************************)
C7_AbsentMetadataRejected ==
    (IsCall /\ ~call.ctx.md.ok) =>
        /\ VerifiersRun = <<>>
        /\ ~outcome.invoked
        /\ HandlerRuns = 0
        /\ AuthResult.err \in MissingMetadata
        /\ IF call.kind = "unary" /\ IsGetVersion
           THEN outcome.ret \in MissingMetadata
           ELSE outcome.ret \in VersionMismatch

\* a unary GetVersion call without metadata, from a peer with a verified certificate
C7_Witness ==
    /\ pc = "done"
    /\ call.kind = "unary"
    /\ IsGetVersion
    /\ ~call.ctx.md.ok
    /\ ~NoVerifiedPeer
    /\ outcome.ret = ErrMissingMetadata

(***************************************************************************)
(* C8: for the same method, metadata, peer and cluster the unary and the   *)
(* stream interceptor reach the same decision: the same rejection, or both *)
(* invoke the handler, the GetVersion exemption included.                  *)
(***************************************************************************)
Decision(o) == [invoked |-> o.invoked, err |-> o.err]

C8_UnaryStreamSameDecision ==
    IsCall =>
        Decision(newUnaryInterceptor(impl, call.ctx, call.method, syscfg, call.cluster))
        = Decision(newStreamInterceptor(impl, call.ctx, call.method, syscfg, call.cluster))

(***************************************************************************)
(* C9: the stream handed to a streaming handler differs from the           *)
(* underlying stream only in Context(), which returns the context that     *)
(* authenticate produced; every RecvMsg, SendMsg, SendHeader, SetHeader    *)
(* and SetTrailer of the handler reaches the underlying stream exactly     *)
(* once, in the same order, with the same argument, and returns what the   *)
(* underlying stream returned; nothing is buffered.                        *)
(***************************************************************************)
ForwardedOps == {"RecvMsg", "SendMsg", "SendHeader", "SetHeader", "SetTrailer"}

C9_WrapperPassThrough ==
    (call.kind = "stream" /\ outcome.invoked) =>
        /\ outcome.stream.ss = "ss"
        /\ Context(outcome.stream) = AuthResult.ctx
        /\ ssLog = SelectSeq(wLog, LAMBDA e : e.op \in ForwardedOps)
        /\ \A i \in 1..Len(wLog) :
              wLog[i].op = "Context" => wLog[i].ret = AuthResult.ctx

\* the handler sent m2, which went out, then m1, which met the end of the stream
C9_Witness ==
    /\ call.kind = "stream"
    /\ pc = "done"
    /\ wLog = << [op |-> "SendMsg", arg |-> "m2", ret |-> NoErr],
                 [op |-> "SendMsg", arg |-> "m1", ret |-> "EOF"] >>
    /\ Len(ssLog) = 2

(***************************************************************************)
(* C10: a call routed to the bearer verifier is authenticated if and only  *)
(* if the cluster's token review of exactly the header value without its   *)
(* "Bearer " prefix completes without error and reports authenticated;     *)
(* otherwise it fails with an Unauthenticated error.  On success the user  *)
(* client configuration the verifier derives carries that token as its     *)
(* bearer token and has no impersonation target.                           *)
(***************************************************************************)
\* the token reviews the call issued
ReviewsIssued == SelectSeq(outcome.trace, LAMBDA e : e.op = "TokenReview")

\* the user configuration the bearer verifier derives for the call
BearerUserConfig ==
    IF impl = "server"
    THEN checkBearerAuth(call.ctx, FirstValue(Authorization), syscfg, call.cluster)
             .ctx.vals[UserClientKey].cfg
    ELSE outcome.hctx.vals[UserClientConfigKey]

C10_BearerTokenReview ==
    (IsCall /\ VerifiersRun = <<"checkBearerAuth">>) =>
        LET h == FirstValue(Authorization)
            token == SubSeq(h, 8, Len(h))
            reviewed == /\ ReviewsIssued = <<Ev("TokenReview", token)>>
                        /\ TokenReviewsCreate(token, call.cluster).err = NoErr
                        /\ TokenReviewsCreate(token, call.cluster).Authenticated
        IN  /\ Len(ReviewsIssued) <= 1
            /\ \A i \in 1..Len(ReviewsIssued) : ReviewsIssued[i].arg = token
            /\ outcome.invoked <=> reviewed
            /\ ~outcome.invoked => outcome.ret \in Unauthenticated
            /\ outcome.invoked =>
                  /\ BearerUserConfig.BearerToken = token
                  /\ BearerUserConfig.Impersonate = EmptyStr
                  /\ BearerUserConfig.Username = EmptyStr

\* a unary call admitted on the token x
C10_Witness ==
    /\ pc = "handler"
    /\ call.kind = "unary"
    /\ FirstValue(Authorization) = BearerPrefix \o <<"x">>
    /\ ReviewsIssued = <<Ev("TokenReview", <<"x">>)>>
    /\ outcome.invoked

(***************************************************************************)
(* C11: a call routed to the basic verifier is authenticated only if the   *)
(* payload after "Basic " base64-decodes to username:password with both    *)
(* fields non-empty and a server-version probe issued with exactly those   *)
(* credentials succeeds; a payload that does not decode or has an empty    *)
(* field fails with an InvalidCredentials error before any probe is        *)
(* issued; a failed probe fails the call with an Unauthenticated error.    *)
(***************************************************************************)
\* what the payloads sent decode to (RFC 4648), split at the first colon
PayloadCredentials ==
    [p \in { <<"d", "T", "p", "w">>, <<"d", "T", "p", "w", "O", "n", "E", "=">>,
             <<"d", "T", "p", "x">>, <<"O", "n", "A", "=">>, <<"d", "T", "o", "=">>,
             <<"d", "Q", "=", "=">>, <<"d", "T", "p">>, <<>> } |->
        CASE p = <<"d", "T", "p", "w">> -> [ok |-> TRUE, user |-> <<"u">>, pass |-> <<"p">>]
          [] p = <<"d", "T", "p", "w", "O", "n", "E", "=">> ->
                 [ok |-> TRUE, user |-> <<"u">>, pass |-> <<"p", ":", "q">>]
          [] p = <<"d", "T", "p", "x">> -> [ok |-> TRUE, user |-> <<"u">>, pass |-> <<"q">>]
          [] p = <<"O", "n", "A", "=">> -> [ok |-> TRUE, user |-> <<>>, pass |-> <<"p">>]
          [] p = <<"d", "T", "o", "=">> -> [ok |-> TRUE, user |-> <<"u">>, pass |-> <<>>]
          [] p = <<"d", "Q", "=", "=">> -> [ok |-> TRUE, user |-> <<>>, pass |-> <<>>]
          [] p = <<"d", "T", "p">> -> [ok |-> FALSE, user |-> <<>>, pass |-> <<>>]
          [] p = <<>> -> [ok |-> TRUE, user |-> <<>>, pass |-> <<>>]]

\* the server-version probes the call issued
ProbesIssued == SelectSeq(outcome.trace, LAMBDA e : e.op = "ServerVersion")

C11_BasicDecodedAndProbed ==
    (IsCall /\ VerifiersRun = <<"checkBasicAuth">>) =>
        LET h == FirstValue(Authorization)
            cred == PayloadCredentials[SubSeq(h, 7, Len(h))]
            wellFormed == cred.ok /\ cred.user # <<>> /\ cred.pass # <<>>
        IN  /\ ~wellFormed =>
                  /\ outcome.ret \in InvalidCredentials
                  /\ ProbesIssued = <<>>
                  /\ ~outcome.invoked
            /\ Len(ProbesIssued) <= 1
            /\ \A i \in 1..Len(ProbesIssued) :
                  /\ ProbesIssued[i].arg.Username = cred.user
                  /\ ProbesIssued[i].arg.Password = cred.pass
                  /\ ProbesIssued[i].arg.BearerToken = EmptyStr
                  /\ ProbesIssued[i].arg.Impersonate = EmptyStr
            /\ outcome.invoked <=>
                  /\ wellFormed
                  /\ Len(ProbesIssued) = 1
                  /\ <<cred.user, cred.pass>> \in BasicUsers
                  /\ call.cluster = "ok"
            /\ (wellFormed /\ ~outcome.invoked) => outcome.ret \in Unauthenticated

\* well-formed credentials u:q the cluster does not accept: probed and rejected
C11_Witness ==
    /\ pc = "done"
    /\ ClientCompatible
    /\ FirstValue(Authorization) = BasicPrefix \o <<"d", "T", "p", "x">>
    /\ call.cluster = "ok"
    /\ Len(ProbesIssued) = 1
    /\ outcome.ret = ErrServerVersion

(***************************************************************************)
(* C12: when the certificate verifier succeeds, the username of the        *)
(* identity it derives is the subject common name of the first certificate *)
(* of the first verified chain, and the user client configuration it       *)
(* derives is the gateway's system configuration with the impersonation    *)
(* target set to that common name and nothing else changed.                *)
(***************************************************************************)
\* the identity and user configuration the certificate verifier derives for the call
CertIdentity ==
    IF impl = "server"
    THEN [user |-> checkClientCert(call.ctx, syscfg).ctx.vals[UserInfoKey],
          usrcfg |-> checkClientCert(call.ctx, syscfg).ctx.vals[UserClientKey].cfg]
    ELSE [user |-> outcome.hctx.vals[UserInfoKey],
          usrcfg |-> outcome.hctx.vals[UserClientConfigKey]]

C12_CertIdentityIsLeafCommonName ==
    (IsCall /\ VerifiersRun = <<"checkClientCert">> /\ outcome.invoked) =>
        LET leaf == call.ctx.peer.chains[1][1] IN
        /\ CertIdentity.user.Username = leaf.CommonName
        /\ CertIdentity.usrcfg.Impersonate = leaf.CommonName
        /\ \A f \in DOMAIN syscfg \ {"Impersonate"} : CertIdentity.usrcfg[f] = syscfg[f]
        /\ DOMAIN CertIdentity.usrcfg = DOMAIN syscfg

\* two verified chains with different leaves: the call is admitted as b, the first chain's leaf
C12_Witness ==
    /\ pc = "handler"
    /\ VerifiersRun = <<"checkClientCert">>
    /\ Len(call.ctx.peer.chains) = 2
    /\ call.ctx.peer.chains[2][1].CommonName = <<"a">>
    /\ CertIdentity.user.Username = <<"b">>
    /\ syscfg.BearerToken # EmptyStr

(***************************************************************************)
(* C13: if the caller cancels the call before the credential verification  *)
(* (token review or credential probe) completes, the verification is       *)
(* abandoned: no execution context is constructed and the handler is not   *)
(* invoked for that call.                                                  *)
(***************************************************************************)
C13_CancelAbandonsVerification ==
    (IsCall /\ call.cancelled) =>
        /\ ~outcome.invoked
        /\ HandlerRuns = 0
        /\ outcome.hctx = NilCtx
        /\ outcome.ret # NoErr

(***************************************************************************)
(* Vocabulary of the store properties                                      *)
(***************************************************************************)
NotFound == {ErrNotFound}
AlreadyExists == {ErrAlreadyExists}
Conflict == {ErrConflict}

\* the records of the store's namespace, before the last call and now
Before(name) == SelectSeq(lastOp.before, LAMBDA r : r.Namespace = ns /\ r.Name = name)
Now(name) == SelectSeq(backend.items, LAMBDA r : r.Namespace = ns /\ r.Name = name)

\* the name the last call was about
NameOf(op) == IF op.kind \in {"Get", "Delete"} THEN op.arg ELSE op.arg.Name

\* the caller's release with the namespace the store is bound to
InStoreNamespace(r) == [r EXCEPT !.Namespace = ns]

\* equal but for the revision token, which the backend may assign
SameRelease(a, b) ==
    [a EXCEPT !.ResourceVersion = 0] = [b EXCEPT !.ResourceVersion = 0]

(***************************************************************************)
(* C14: when the store holds no release named n in its namespace and       *)
(* Create(r) with r.Name = n returns without error, what it returns is r   *)
(* placed in the store's namespace, that release is what the backend now   *)
(* holds under n, and every later Get(n) returns a release equal to it,    *)
(* whatever calls on other names (or failed calls on n) come in between,   *)
(* until n is written or deleted again.  Create of an absent name returns  *)
(* without error whenever r's namespace field is the store's; through the  *)
(* fake, which overwrites the field, for every r.                          *)
(***************************************************************************)
C14_CreateThenGetRoundTrip ==
    /\ (lastOp.kind = "Create" /\ Before(lastOp.arg.Name) = <<>>) =>
          /\ (iface = "fake" \/ lastOp.arg.Namespace = ns) => lastOp.err = NoErr
          /\ lastOp.err = NoErr =>
                /\ ~lastOp.nil
                /\ SameRelease(lastOp.out, InStoreNamespace(lastOp.arg))
                /\ Now(lastOp.arg.Name) = <<lastOp.out>>
                /\ written[lastOp.arg.Name] = Written(lastOp.out)
    /\ (lastOp.kind = "Get" /\ written[lastOp.arg].state = "written") =>
          /\ lastOp.err = NoErr
          /\ ~lastOp.nil
          /\ lastOp.out = written[lastOp.arg].release
          /\ backend.items = lastOp.before

\* n2 was created, then n1, and Get(n1) returns what was created
C14_Witness ==
    /\ lastOp.kind = "Get"
    /\ lastOp.arg = "n1"
    /\ Len(lastOp.before) = 2
    /\ lastOp.before[1].Name = "n2"
    /\ written["n2"].state = "written"
    /\ written["n1"].state = "written"
    /\ lastOp.out.Payload = "p2"
    /\ lastOp.out.Labels = WebX
    /\ iface = "real"

(***************************************************************************)
(* C15: Create of a release whose name already exists in the store's       *)
(* namespace fails, with AlreadyExists whenever the release's namespace    *)
(* field is the store's (through the fake: always), and leaves everything  *)
(* the backend holds unchanged; a Get of a name that exists returns the    *)
(* release stored under it, so a Get after the failed Create returns the   *)
(* originally stored value.                                                *)
(***************************************************************************)
C15_CreateExistingFails ==
    /\ (lastOp.kind = "Create" /\ Before(lastOp.arg.Name) # <<>>) =>
          /\ lastOp.err # NoErr
          /\ (iface = "fake" \/ lastOp.arg.Namespace = ns) => lastOp.err \in AlreadyExists
          /\ backend.items = lastOp.before
          /\ Now(lastOp.arg.Name) = Before(lastOp.arg.Name)
    /\ (lastOp.kind = "Get" /\ Before(lastOp.arg) # <<>>) =>
          /\ lastOp.err = NoErr
          /\ ~lastOp.nil
          /\ <<lastOp.out>> = Before(lastOp.arg)

\* a second Create of n1, with another body: refused, the first body still stored
C15_Witness ==
    /\ lastOp.kind = "Create"
    /\ lastOp.arg.Name = "n1"
    /\ lastOp.err = ErrAlreadyExists
    /\ written["n1"].state = "written"
    /\ Len(Now("n1")) = 1
    /\ Now("n1")[1].Payload = "p1"
    /\ lastOp.arg.Payload = "p2"

\* the last call was an Update of a name that exists, its namespace field in order
UpdateOfExisting ==
    /\ lastOp.kind = "Update"
    /\ Before(lastOp.arg.Name) # <<>>
    /\ iface = "fake" \/ lastOp.arg.Namespace = ns

(***************************************************************************)
(* C16 as stated: Update of an existing release with a revision token      *)
(* that differs from the stored one fails with Conflict and leaves the     *)
(* stored release unchanged, and of two Updates made with the same token   *)
(* at most one succeeds.                                                   *)
(***************************************************************************)
C16_StaleUpdateConflicts ==
    /\ (UpdateOfExisting
          /\ lastOp.arg.ResourceVersion # Before(lastOp.arg.Name)[1].ResourceVersion) =>
              /\ lastOp.err \in Conflict
              /\ backend.items = lastOp.before
    /\ (lastOp.kind = "Update" /\ lastOp.reused) => lastOp.err # NoErr

(***************************************************************************)
(* C16 amended: the store performs no revision check of its own; it sends  *)
(* the release, token included, to the backend.  On a backend that         *)
(* implements optimistic concurrency, Update of an existing release with a *)
(* token other than the stored one fails with Conflict and changes         *)
(* nothing; with the stored token it succeeds, the backend holds the       *)
(* submitted release under a new token and a following Get returns it; of  *)
(* two Updates made with the same token at most one succeeds.  On a        *)
(* backend without it, Update of an existing release succeeds whatever the *)
(* token.  An Update that fails never changes what is stored.              *)
(***************************************************************************)
C16_UpdateRevisionChecked ==
    /\ (UpdateOfExisting /\ policy.optimistic) =>
          IF lastOp.arg.ResourceVersion # Before(lastOp.arg.Name)[1].ResourceVersion
          THEN /\ lastOp.err \in Conflict
               /\ backend.items = lastOp.before
          ELSE /\ lastOp.err = NoErr
               /\ SameRelease(lastOp.out, InStoreNamespace(lastOp.arg))
               /\ lastOp.out.ResourceVersion # lastOp.arg.ResourceVersion
               /\ Now(lastOp.arg.Name) = <<lastOp.out>>
               /\ written[lastOp.arg.Name] = Written(lastOp.out)
    /\ (UpdateOfExisting /\ ~policy.optimistic) =>
          /\ lastOp.err = NoErr
          /\ Now(lastOp.arg.Name) = <<InStoreNamespace(lastOp.arg)>>
    /\ (lastOp.kind = "Update" /\ lastOp.err # NoErr) => backend.items = lastOp.before
    /\ (lastOp.kind = "Update" /\ lastOp.reused /\ policy.optimistic) => lastOp.err # NoErr
    /\ (lastOp.kind = "Get" /\ written[lastOp.arg].state = "written") =>
          <<lastOp.out>> = Now(lastOp.arg)

\* two Updates of n1 with the same token, another body in the second: the second loses
C16_Witness ==
    /\ lastOp.kind = "Update"
    /\ lastOp.arg.Name = "n1"
    /\ policy.optimistic
    /\ lastOp.reused
    /\ lastOp.err = ErrConflict
    /\ Len(Now("n1")) = 1
    /\ Now("n1")[1].Payload # lastOp.arg.Payload
    /\ written["n1"].state = "written"

(***************************************************************************)
(* C17: Delete of a name that is not in the store's namespace fails with   *)
(* NotFound and changes nothing; Delete of a name that is there removes    *)
(* that record and no other; after a successful Delete(n), Get(n) fails    *)
(* with NotFound until n is created again.                                 *)
(***************************************************************************)
C17_DeleteThenNotFound ==
    /\ (lastOp.kind = "Delete" /\ Before(lastOp.arg) = <<>>) =>
          /\ lastOp.err \in NotFound
          /\ backend.items = lastOp.before
    /\ (lastOp.kind = "Delete" /\ Before(lastOp.arg) # <<>>) =>
          /\ lastOp.err = NoErr
          /\ Now(lastOp.arg) = <<>>
          /\ backend.items =
                 SelectSeq(lastOp.before,
                           LAMBDA r : ~(r.Namespace = ns /\ r.Name = lastOp.arg))
          /\ written[lastOp.arg] = Deleted
    /\ (lastOp.kind = "Get" /\ written[lastOp.arg] = Deleted) =>
          /\ lastOp.err \in NotFound
          /\ Now(lastOp.arg) = <<>>
    /\ (lastOp.kind \in {"Get", "Delete"} /\ lastOp.err \in NotFound) =>
          Before(lastOp.arg) = <<>>
    /\ \A n \in Names : written[n] = Deleted => Now(n) = <<>>

\* n1 was created and deleted; Get(n1) fails although another namespace has an n1
C17_Witness ==
    /\ lastOp.kind = "Get"
    /\ lastOp.arg = "n1"
    /\ written["n1"] = Deleted
    /\ lastOp.err = ErrNotFound
    /\ \E i \in 1..Len(backend.items) :
          backend.items[i].Name = "n1" /\ backend.items[i].Namespace = OtherNamespace
    /\ backend.rev > 1

\* the releases of the store's namespace that carry every pair the selector of
\* the last call requires, in the backend's order
Selected ==
    SelectSeq(lastOp.before,
              LAMBDA r : /\ r.Namespace = ns
                         /\ \/ lastOp.arg.LabelSelector.nil
                            \/ \A k \in DOMAIN lastOp.arg.LabelSelector.pairs :
                                  /\ k \in DOMAIN r.Labels
                                  /\ r.Labels[k] = lastOp.arg.LabelSelector.pairs[k])

\* all releases of the store's namespace, in the backend's order
InNamespace == SelectSeq(lastOp.before, LAMBDA r : r.Namespace = ns)

NewlyStored ==
    SelectSeq(backend.items,
              LAMBDA r : \A i \in 1..Len(lastOp.before) : lastOp.before[i] # r)

C19_SubmittedNamespaceIsStores ==
    lastOp.kind \in Writes =>
        /\ lastOp.req.ns = ns
        /\ lastOp.req.body.Namespace = ns
        /\ lastOp.err \notin {ErrBadRequest}
        /\ \A i \in 1..Len(NewlyStored) : NewlyStored[i].Namespace = ns

(***************************************************************************)
(* Claims about the storage factory                                        *)
(***************************************************************************)
\* the instance's kind of store needs the release type registered
NeedsType(i) == inst[i].opts.StoreType \in {StorageInlineTPR, StorageObjectStoreTPR}

\* ensureResource has returned to NewStorage in instance i
Bootstrapped(i) == NeedsType(i) /\ inst[i].pc \in {"construct", "returned"}

\* C20: the bootstrap of the release type tolerates "already exists" and is
\* idempotent: whether the type was absent or present at the start, and also
\* when several instances see it absent and each attempts the Create, no
\* instance is ended by the Create's AlreadyExists, every instance whose
\* requests got through finds the type registered when its bootstrap is over,
\* and the cluster has accepted at most one Create of the type.
C20_BootstrapToleratesAlreadyExists ==
    /\ \A i \in Instances : inst[i].cause # ErrAlreadyExists
    /\ \A i \in Instances :
           Bootstrapped(i) /\ inst[i].seen # ErrUnavailable => registry.present
    /\ registry.created <= 1

\* the look-up of the release type by instance i did not get through
LookupFailed(i) == inst[i].seen = ErrUnavailable

\* instance i holds a Storage built around a driver
HasStorage(i) == inst[i].driver # "none"

\* C21: storage initialization never yields a half-initialized store: an
\* instance that exited has built and returned nothing, and an instance whose
\* look-up of the bootstrap resource failed (for a reason other than the
\* resource being absent) has ended fatally, with no driver and no Storage.
C21_NoHalfInitializedStore ==
    \A i \in Instances :
        /\ inst[i].pc = "exited" => ~HasStorage(i) /\ inst[i].err = NoErr
        /\ LookupFailed(i) => inst[i].pc = "exited" /\ ~HasStorage(i)

(***************************************************************************)
(* Claims about the memory driver                                          *)
(***************************************************************************)
CreatesOf(n) == {t \in Tasks : task[t].op = "Create" /\ task[t].name = n}
Succeeded(n) == {t \in CreatesOf(n) : task[t].err = NoErr}
Refused(n) == {t \in CreatesOf(n) : task[t].err = ErrAlreadyExists}
Finished(n) == {t \in CreatesOf(n) : task[t].pc = "done"}

\* the name was not in the map before any of the calls
PreviouslyAbsent(n) == mem[n] # Held("b0")

\* C22: concurrent Creates of one previously absent name against the memory
\* driver: at no time has more than one of them succeeded; once all have
\* returned exactly one has succeeded, every other one got AlreadyExists, and
\* the map holds the body of the one that succeeded; and no reader ever finds
\* a key without its body under the name.
C22_OneCreateWins ==
    /\ \A n \in Names :
           PreviouslyAbsent(n) =>
               /\ Cardinality(Succeeded(n)) <= 1
               /\ \A t \in Succeeded(n) : mem[n] = Held(task[t].body)
               /\ CreatesOf(n) # {} /\ Finished(n) = CreatesOf(n) =>
                      /\ Cardinality(Succeeded(n)) = 1
                      /\ Refused(n) = CreatesOf(n) \ Succeeded(n)
    /\ \A t \in Tasks : task[t].saw.state # "reserved"

\* two Creates of one absent name and a Get of it have all returned: one
\* Create succeeded, the other was refused
C22_Witness ==
    \E n \in Names :
        /\ PreviouslyAbsent(n)
        /\ Cardinality(CreatesOf(n)) = 2
        /\ Finished(n) = CreatesOf(n)
        /\ Cardinality(Succeeded(n)) = 1
        /\ Cardinality(Refused(n)) = 1
        /\ \E t \in Tasks : task[t].op = "Get" /\ task[t].name = n /\ task[t].pc = "done"

KnownStoreTypes ==
    {StorageMemory, StorageConfigMap, StorageInlineTPR, StorageObjectStoreTPR}

\* instance i made no request for the release type and is at none of the
\* steps of the bootstrap, the dial or the container look-up
NoBootstrap(i) ==
    /\ inst[i].seen = "none"
    /\ inst[i].pc \in {"start", "returned", "exited"}
    /\ inst[i].pc = "exited" => inst[i].cause = ErrConnection

\* the instance with its provider field blanked
SansProvider(i) == [inst[i] EXCEPT !.opts.ObjectStoreProvider = "any"]

\* C23: the backend is selected by the store kind alone: an instance of kind
\* memory makes no bootstrap request, dials nothing, and what NewStorage
\* returns to it is the memory driver, whatever its provider field says (two
\* memory instances that got equally far differ in nothing but that field);
\* an instance of an unrecognized kind gets an error and no store.
C23_SelectionByKindOnly ==
    /\ \A i \in Instances :
           inst[i].opts.StoreType = StorageMemory =>
               /\ NoBootstrap(i)
               /\ inst[i].pc = "returned" =>
                      inst[i].driver = "Memory" /\ inst[i].err = NoErr
    /\ \A i, j \in Instances :
           /\ inst[i].opts.StoreType = StorageMemory
           /\ inst[j].opts.StoreType = StorageMemory
           /\ inst[i].pc = inst[j].pc
           => SansProvider(i) = SansProvider(j)
    /\ \A i \in Instances :
           inst[i].opts.StoreType \notin KnownStoreTypes =>
               /\ NoBootstrap(i)
               /\ ~HasStorage(i)
               /\ inst[i].pc = "returned" => inst[i].err = ErrUnknowStoreType

\* two memory instances with different provider fields, one of them naming
\* no known provider, have both been handed the memory driver
C23_Witness ==
    \E i, j \in Instances :
        /\ inst[i].opts = StoreOptions(StorageMemory, "ftp")
        /\ inst[j].opts = StoreOptions(StorageMemory, "s3")
        /\ inst[i].pc = "returned" /\ inst[i].driver = "Memory"
        /\ inst[j].pc = "returned" /\ inst[j].driver = "Memory"

(***************************************************************************)
(* Claims about the storage namespace                                      *)
(***************************************************************************)
\* t is s without the white space at its two ends
IsTrimmed(t, s) ==
    \E p, q \in 0..Len(s) :
        /\ p + q <= Len(s)
        /\ \A i \in 1..p : IsSpace(s[i])
        /\ \A i \in (Len(s) - q + 1)..Len(s) : IsSpace(s[i])
        /\ t = SubSeq(s, p + 1, Len(s) - q)
        /\ t # EmptyStr => ~IsSpace(t[1]) /\ ~IsSpace(t[Len(t)])

\* n is what the priority order gives in surroundings e
ByPriority(n, e) ==
    IF e.TILLER_NAMESPACE # EmptyStr THEN n = e.TILLER_NAMESPACE
    ELSE IF e.readable /\ ~IsTrimmed(EmptyStr, e.data) THEN IsTrimmed(n, e.data)
    ELSE n = DefaultTillerNamespace

\* C24: the storage namespace is the non-empty environment override if there
\* is one, else the trimmed non-empty content of the service account's
\* namespace file, else the compiled-in default, taken from the surroundings
\* as they were when NewStorage ran; every request of the store's client
\* after that carries this namespace, however the variable and the file have
\* changed since.
C24_NamespaceByPriorityOnce ==
    startup.done =>
        /\ ByPriority(ns, startup.environ)
        /\ \A i \in 1..Len(used) : used[i] = ns

\* the override was empty and the file held a padded name at startup; the
\* surroundings now give another namespace, and requests have been sent
C24_Witness ==
    /\ startup.done
    /\ startup.environ.TILLER_NAMESPACE = EmptyStr
    /\ startup.environ.readable
    /\ ns = <<"f", " ", "g">>
    /\ namespace(environ) # ns
    /\ Len(used) = MaxOps

(***************************************************************************)
(* Further claims about the gateway                                        *)
(***************************************************************************)
TimesRun(op) == Len(SelectSeq(OpsOf(outcome.trace), LAMBDA o : o = op))

\* C25: errors are surfaced verbatim and nothing is retried: what the
\* interceptor returns for a call is the error of the step that failed (the
\* version check's when authenticate was not reached, authenticate's when it
\* failed, else whatever the handler returned), and in one call the version
\* check, authenticate and a credential verifier run at most once each.
C25_ErrorsVerbatimOnce ==
    (IsCall /\ pc = "done") =>
        /\ TimesRun("checkClientVersion") <= 1
        /\ TimesRun("authenticate") <= 1
        /\ Len(VerifiersRun) <= 1
        /\ ~outcome.invoked /\ TimesRun("authenticate") = 0 =>
               outcome.ret = checkClientVersion(call.ctx) /\ outcome.ret # NoErr
        /\ ~outcome.invoked /\ TimesRun("authenticate") > 0 =>
               outcome.ret = AuthResult.err /\ outcome.ret # NoErr
        /\ outcome.invoked => outcome.ret = outcome.herr

\* a call came back with the error of a verifier that ran once after the
\* version check had passed
C25_Witness ==
    /\ IsCall /\ pc = "done"
    /\ ~outcome.invoked
    /\ TimesRun("checkClientVersion") = 1
    /\ Len(VerifiersRun) = 1
    /\ outcome.ret = AuthResult.err
    /\ outcome.ret \notin {NoErr, ErrIncompatible, ErrMissingMetadata, ErrUnknownScheme}

IdentityKeys ==
    {UserInfoKey, UserClientKey, UserClientConfigKey, SystemClientKey,
     SystemClientConfigKey, ImpersonateUserKey}

\* authenticate ran for the call in flight and returned an error
AuthenticateFailed == IsCall /\ TimesRun("authenticate") > 0 /\ AuthResult.err # NoErr

\* C26: whenever authentication fails (missing metadata, unknown scheme, any
\* verifier error) authenticate yields the nil context together with the
\* error, and nothing its caller receives carries an identity, user client or
\* system client value.
C26_FailedAuthenticateYieldsNil ==
    AuthenticateFailed =>
        /\ AuthResult.ctx.nil
        /\ \A k \in IdentityKeys : ~HasValue(AuthResult.ctx, k)
        /\ \A k \in IdentityKeys : ~HasValue(outcome.hctx, k)

\* C27: the GetVersion exemption bypasses the version check only: a unary
\* GetVersion call whose client version is incompatible still runs
\* authenticate, once, right after the version check, and when that fails
\* (no metadata, an unknown scheme, a failing verifier) the call is rejected
\* with authenticate's error and the handler is not invoked.
C27_ExemptionStillAuthenticates ==
    (call.kind = "unary" /\ IsGetVersion /\ ~ClientCompatible) =>
        /\ TimesRun("authenticate") = 1
        /\ ~call.ctx.md.ok =>
               ~outcome.invoked /\ outcome.ret = ErrMissingMetadata
        /\ call.ctx.md.ok /\ Scheme(FirstValue(Authorization)) = "unknown" =>
               ~outcome.invoked /\ outcome.ret = ErrUnknownScheme
        /\ call.ctx.md.ok /\ Scheme(FirstValue(Authorization)) = "checkClientCert"
               /\ NoVerifiedPeer => ~outcome.invoked /\ outcome.ret # NoErr
        /\ AuthResult.err # NoErr =>
               /\ ~outcome.invoked
               /\ HandlerRuns = 0
               /\ outcome.ret = AuthResult.err

\* a unary GetVersion call with an incompatible version and a bearer token
\* the cluster does not vouch for: the verifier ran and the call was rejected
C27_Witness ==
    /\ call.kind = "unary" /\ IsGetVersion /\ ~ClientCompatible
    /\ FirstValue(VersionHeader) = <<"3", ".", "1">>
    /\ VerifiersRun = <<"checkBearerAuth">>
    /\ ~outcome.invoked
    /\ outcome.ret = AuthResult.err
    /\ outcome.ret # NoErr

\* what the two builds do with the call in flight
OnServer ==
    IF call.kind = "stream"
    THEN newStreamInterceptor("server", call.ctx, call.method, syscfg, call.cluster)
    ELSE newUnaryInterceptor("server", call.ctx, call.method, syscfg, call.cluster)

OnLegacy ==
    IF call.kind = "stream"
    THEN newStreamInterceptor("legacy", call.ctx, call.method, syscfg, call.cluster)
    ELSE newUnaryInterceptor("legacy", call.ctx, call.method, syscfg, call.cluster)

SameDecision == Decision(OnServer) = Decision(OnLegacy)

\* the handler reads the same UserInfo from the two contexts
SameUserInfo(s, l) ==
    /\ HasValue(s, UserInfoKey) <=> HasValue(l, UserInfoKey)
    /\ HasValue(s, UserInfoKey) /\ HasValue(l, UserInfoKey) =>
           s.vals[UserInfoKey] = l.vals[UserInfoKey]

\* the user's client of the one is made of the user's config of the other,
\* and likewise the system's
SameClients(s, l) ==
    /\ HasValue(s, UserClientKey) <=> HasValue(l, UserClientConfigKey)
    /\ HasValue(s, UserClientKey) /\ HasValue(l, UserClientConfigKey) =>
           s.vals[UserClientKey] = NewClient(l.vals[UserClientConfigKey])
    /\ HasValue(s, SystemClientKey) <=> HasValue(l, SystemClientConfigKey)
    /\ HasValue(s, SystemClientKey) /\ HasValue(l, SystemClientConfigKey) =>
           s.vals[SystemClientKey] = NewClient(l.vals[SystemClientConfigKey])

\* C28: the context-value based authentication of pkg/tiller/server.go and
\* the return-value based one of the superseded copy are observationally
\* equivalent: on every call they accept or reject alike, with the same
\* error, and when they accept, the handler reads the same UserInfo and the
\* same user and system client identity from its context.
C28_BuildsEquivalent ==
    IsCall =>
        /\ SameDecision
        /\ OnServer.invoked /\ OnLegacy.invoked =>
               /\ SameUserInfo(OnServer.hctx, OnLegacy.hctx)
               /\ SameClients(OnServer.hctx, OnLegacy.hctx)

\* the config a context gives for the user, and the one for the system
UserConfigOf(ctx) ==
    IF HasValue(ctx, UserClientKey) THEN ctx.vals[UserClientKey].cfg
    ELSE ctx.vals[UserClientConfigKey]

SystemConfigOf(ctx) ==
    IF HasValue(ctx, SystemClientKey) THEN ctx.vals[SystemClientKey].cfg
    ELSE ctx.vals[SystemClientConfigKey]

\* the context in which the verifier of the call in flight left the values
\* it derived: its own ctx in pkg/tiller/server.go, the one authenticate
\* builds from its results in the superseded copy
Derived ==
    IF impl = "legacy" THEN AuthResult.ctx
    ELSE IF VerifiersRun = <<"checkClientCert">>
    THEN checkClientCert(call.ctx, syscfg).ctx
    ELSE IF VerifiersRun = <<"checkBearerAuth">>
    THEN checkBearerAuth(call.ctx, FirstValue(Authorization), syscfg, call.cluster).ctx
    ELSE checkBasicAuth(call.ctx, FirstValue(Authorization), syscfg, call.cluster).ctx

\* the common name the call in flight presents, empty when it presents none
OwnCommonName ==
    IF NoVerifiedPeer THEN EmptyStr ELSE call.ctx.peer.chains[1][1].CommonName

\* C29: the gateway's system configuration is as at startup whatever calls
\* have been served, its impersonation target and credentials included; the
\* verifier of the call in flight is handed exactly that configuration, the
\* system configuration a call is given is that one, and the user
\* configuration it is given impersonates nobody but the call's own
\* certificate identity.
C29_SystemConfigUntouched ==
    /\ syscfg \in SysConfigs
    /\ syscfg.Impersonate = EmptyStr
    /\ IsCall /\ TimesRun("authenticate") > 0 /\ AuthResult.err = NoErr =>
           /\ SystemConfigOf(Derived) = syscfg
           /\ UserConfigOf(Derived).Impersonate \in {EmptyStr, OwnCommonName}
           /\ UserConfigOf(Derived).Impersonate # EmptyStr =>
                  VerifiersRun = <<"checkClientCert">>

\* a call authenticated by certificate is being served: its user
\* configuration impersonates its common name, the system configuration
\* still nobody
C29_Witness ==
    /\ IsCall
    /\ outcome.invoked
    /\ VerifiersRun = <<"checkClientCert">>
    /\ OwnCommonName = <<"b">>
    /\ syscfg.Impersonate = EmptyStr
    /\ UserConfigOf(Derived).Impersonate = <<"b">>
    /\ SystemConfigOf(Derived) = syscfg

====
